---- MODULE Spec2Model ----
(***************************************************************************)
(* gqlgenc: the selection-set type synthesizer (codegen.GoTypeGenerator),  *)
(* the querygen field analyzer / unmarshal planner, and the behaviour of   *)
(* the emitted UnmarshalJSON plans on JSON objects.                        *)
(*                                                                         *)
(* Strings are sequences of one-character strings, so that conversion,    *)
(* concatenation and byte-wise comparison are computed, not assumed.       *)
(***************************************************************************)
EXTENDS Integers, Sequences, FiniteSets, TLC

VARIABLES
    pc,        \* position of the generator / generated code
    input,     \* the parsed input of the running scenario
    g,         \* the GoTypeGenerator: types (map from Type.String() to type)
               \* and created (TypeName objects allocated so far)
    opIdx,     \* index of the next operation CreateGoTypes processes
    scopes,    \* the scopes whose struct has been built, with their field records
    goTypes,   \* the slice CreateGoTypes returned
    wrapped,   \* result of newTypeKindAndGoType in the wrapping scenario
    skipUnmarshal, \* CodeGenerator.skipUnmarshal: names of the embedded types
    typeInfos, \* the TypeInfo and the UnmarshalJSON plan generated per type
    run        \* one execution of a generated UnmarshalJSON

synthVars == <<g, opIdx, scopes, goTypes>>
genVars == <<skipUnmarshal, typeInfos>>
vars == <<pc, input, g, opIdx, scopes, goTypes, wrapped, skipUnmarshal, typeInfos, run>>

(***************************************************************************)
(* Strings                                                                 *)
(***************************************************************************)
LowerLetters == <<"a","b","c","d","e","f","g","h","i","j","k","l","m",
                  "n","o","p","q","r","s","t","u","v","w","x","y","z">>
UpperLetters == <<"A","B","C","D","E","F","G","H","I","J","K","L","M",
                  "N","O","P","Q","R","S","T","U","V","W","X","Y","Z">>

IndexOf(seq, c) == CHOOSE i \in 1..Len(seq) : seq[i] = c
InSeq(seq, c) == \E i \in 1..Len(seq) : seq[i] = c

IsLower(c) == InSeq(LowerLetters, c)
IsUpper(c) == InSeq(UpperLetters, c)
ToUpperCh(c) == IF IsLower(c) THEN UpperLetters[IndexOf(LowerLetters, c)] ELSE c
ToLowerCh(c) == IF IsUpper(c) THEN LowerLetters[IndexOf(UpperLetters, c)] ELSE c

\* byte value of a character (ASCII)
Code(c) ==
    IF IsUpper(c) THEN 64 + IndexOf(UpperLetters, c)
    ELSE IF IsLower(c) THEN 96 + IndexOf(LowerLetters, c)
    ELSE IF c = "*" THEN 42
    ELSE IF c = "-" THEN 45
    ELSE IF c = "." THEN 46
    ELSE IF c = "_" THEN 95
    ELSE 0

\* strings.Compare: byte-wise lexicographic order
RECURSIVE Compare(_, _)
Compare(a, b) ==
    IF a = <<>> /\ b = <<>> THEN 0
    ELSE IF a = <<>> THEN -1
    ELSE IF b = <<>> THEN 1
    ELSE IF Code(Head(a)) < Code(Head(b)) THEN -1
    ELSE IF Code(Head(a)) > Code(Head(b)) THEN 1
    ELSE Compare(Tail(a), Tail(b))

\* strings.TrimPrefix(s, "*")
TrimStar(s) == IF s # <<>> /\ Head(s) = "*" THEN Tail(s) ELSE s

\* strings.ReplaceAll(s, ".", "_")
ReplaceDots(s) == [i \in 1..Len(s) |-> IF s[i] = "." THEN "_" ELSE s[i]]

MapStr(F(_), s) == [i \in 1..Len(s) |-> F(s[i])]
StrToUpper(s) == MapStr(ToUpperCh, s)
StrToLower(s) == MapStr(ToLowerCh, s)

firstUpper(s) == IF Len(s) = 0 THEN s ELSE <<ToUpperCh(Head(s))>> \o Tail(s)
firstLower(s) == IF Len(s) = 0 THEN s ELSE <<ToLowerCh(Head(s))>> \o Tail(s)

(***************************************************************************)
(* templates.ToGo (gqlgen), as called by fieldTypeName and Field.goVar:    *)
(* the name is cut into words at delimiters ('_', '-') and at every        *)
(* lower -> non-lower boundary; a word that is all upper or all lower case *)
(* becomes lower case with an upper-case first letter, any other word is  *)
(* kept; the words are joined without the delimiters.  The table of       *)
(* common initialisms (ID, URL, ...) is left out: no name of the model is *)
(* an initialism.                                                          *)
(***************************************************************************)
isDelimiter(c) == c = "_" \/ c = "-"

ToGoWord(w) ==
    IF StrToUpper(w) = w \/ StrToLower(w) = w
    THEN firstUpper(StrToLower(w))
    ELSE w

\* words of s, scanning from position i with the current word cur
RECURSIVE wordWalker(_, _, _)
wordWalker(s, i, cur) ==
    IF i > Len(s) THEN (IF cur = <<>> THEN <<>> ELSE <<cur>>)
    ELSE IF isDelimiter(s[i])
         THEN (IF cur = <<>> THEN <<>> ELSE <<cur>>) \o wordWalker(s, i + 1, <<>>)
    ELSE IF cur # <<>> /\ IsLower(cur[Len(cur)]) /\ ~IsLower(s[i])
         THEN <<cur>> \o wordWalker(s, i + 1, <<s[i]>>)
    ELSE wordWalker(s, i + 1, Append(cur, s[i]))

RECURSIVE Concat(_)
Concat(ws) == IF ws = <<>> THEN <<>> ELSE Head(ws) \o Concat(Tail(ws))

ToGo(name) ==
    IF name = <<"_">> THEN name
    ELSE LET ws == wordWalker(name, 1, <<>>)
         IN  Concat([i \in 1..Len(ws) |-> ToGoWord(ws[i])])

\* fieldTypeName(parentTypeName, fieldName, exportQueryType)
fieldTypeName(parentTypeName, fieldName, exportQueryType) ==
    IF exportQueryType
    THEN firstUpper(parentTypeName) \o <<"_">> \o ToGo(fieldName)
    ELSE firstLower(parentTypeName) \o <<"_">> \o ToGo(fieldName)

(***************************************************************************)
(* GraphQL type references (ast.Type) and Go types (go/types)              *)
(***************************************************************************)
\* ast.Type: NamedType is "" for a list; Elem is <<>> (nil) or <<element>>
NamedRef(name, nonNull) == [NamedType |-> name, Elem |-> <<>>, NonNull |-> nonNull]
ListRef(elem, nonNull)  == [NamedType |-> <<>>, Elem |-> <<elem>>, NonNull |-> nonNull]

\* obj is the identity of the *types.TypeName of a named type (0 otherwise):
\* NewTypeName allocates a new object on every call
Basic(name)       == [kind |-> "Basic",   name |-> name, elem |-> <<>>,  fields |-> <<>>, obj |-> 0]
NewPointer(t)     == [kind |-> "Pointer", name |-> <<>>, elem |-> <<t>>, fields |-> <<>>, obj |-> 0]
NewSlice(t)       == [kind |-> "Slice",   name |-> <<>>, elem |-> <<t>>, fields |-> <<>>, obj |-> 0]
NewStruct(fs)     == [kind |-> "Struct",  name |-> <<>>, elem |-> <<>>,  fields |-> fs,   obj |-> 0]
\* a named type: elem holds the underlying type
NewNamed(obj, name, t) ==
    [kind |-> "Named", name |-> name, elem |-> <<t>>, fields |-> <<>>, obj |-> obj]
\* types.Var of a struct field, with the tag NewStruct stores beside it
NewVar(name, t, embedded, tag) ==
    [name |-> name, type |-> t, embedded |-> embedded, tag |-> tag]

\* QueryGen.Pkg(): the package every named type is created in
PkgPath == <<"q">>

\* Type.String() for the types whose String() the generator reads
\* (named types and pointers to them)
RECURSIVE TypeString(_)
TypeString(t) ==
    IF t.kind = "Pointer" THEN <<"*">> \o TypeString(t.elem[1])
    ELSE IF t.kind = "Named" THEN PkgPath \o <<".">> \o t.name
    ELSE IF t.kind = "Basic" THEN t.name
    ELSE IF t.kind = "Slice" THEN <<"[", "]">> \o TypeString(t.elem[1])
    ELSE <<"s","t","r","u","c","t">>

(***************************************************************************)
(* Selections (ast.Selection), the generator configuration                 *)
(***************************************************************************)
\* *ast.Field: Alias, Definition.Type, SelectionSet
FieldSel(alias, type, sels) ==
    [kind |-> "Field", Name |-> alias, Type |-> <<type>>, SelectionSet |-> sels]
\* *ast.FragmentSpread: Name; Definition.SelectionSet is looked up in the
\* fragment registry of the document
SpreadSel(name) ==
    [kind |-> "FragmentSpread", Name |-> name, Type |-> <<>>, SelectionSet |-> <<>>]
\* *ast.InlineFragment: TypeCondition, SelectionSet
InlineSel(cond, sels) ==
    [kind |-> "InlineFragment", Name |-> cond, Type |-> <<>>, SelectionSet |-> sels]

\* GQLGenConfig.Models[typeName].Model[0] and binder.FindTypeFromName
str_String == <<"S","t","r","i","n","g">>
str_Int    == <<"I","n","t">>
str_string == <<"s","t","r","i","n","g">>
str_int    == <<"i","n","t">>
KnownModels == {str_String, str_Int}
FindTypeFromName(typeName) == IF typeName = str_String THEN Basic(str_string) ELSE Basic(str_int)

\* the value that stands for a call that panicked instead of returning a type
Panic(name) == [kind |-> "panic", name |-> name, elem |-> <<>>, fields |-> <<>>, obj |-> 0]

\* findGoType: panics when the binder cannot resolve the name
findGoType(typeName, nonNull) ==
    IF typeName \notin KnownModels THEN Panic(typeName)
    ELSE IF ~nonNull THEN NewPointer(FindTypeFromName(typeName))
    ELSE FindTypeFromName(typeName)

IsPanic(t) == t.kind = "panic"

\* buildGoTypeHelper that makes every list a pointer to a slice
RECURSIVE buildGoTypeHelperNullableLists(_)
buildGoTypeHelperNullableLists(gqlType) ==
    IF gqlType.NamedType # <<>> THEN findGoType(gqlType.NamedType, gqlType.NonNull)
    ELSE IF gqlType.Elem # <<>> THEN
        LET elemType == buildGoTypeHelperNullableLists(gqlType.Elem[1])
        IN  IF IsPanic(elemType) THEN elemType ELSE NewPointer(NewSlice(elemType))
    ELSE Panic(<<>>)

\* buildGoTypeHelper (buildGoType calls it with inList = FALSE; inList is unused)
RECURSIVE buildGoTypeHelper(_)
buildGoTypeHelper(gqlType) ==
    IF gqlType.NamedType # <<>> THEN findGoType(gqlType.NamedType, gqlType.NonNull)
    ELSE IF gqlType.Elem # <<>> THEN
        LET elemType == buildGoTypeHelper(gqlType.Elem[1])
            sliceType == NewSlice(elemType)
        IN  IF IsPanic(elemType) THEN elemType
            ELSE IF ~gqlType.NonNull THEN NewPointer(sliceType) ELSE sliceType
    ELSE Panic(<<>>)

buildGoType(gqlType) == buildGoTypeHelper(gqlType)

\* wrapWithListAndNullability that forgets the pointer of a nullable list
RECURSIVE wrapWithoutListPointer(_, _)
wrapWithoutListPointer(baseType, gqlType) ==
    IF gqlType.NamedType # <<>> THEN
        (IF ~gqlType.NonNull THEN NewPointer(baseType) ELSE baseType)
    ELSE IF gqlType.Elem # <<>> THEN
        NewSlice(wrapWithoutListPointer(NewPointer(baseType), gqlType.Elem[1]))
    ELSE baseType

\* wrapWithListAndNullability(baseType, gqlType)
RECURSIVE wrapWithListAndNullability(_, _)
wrapWithListAndNullability(baseType, gqlType) ==
    IF gqlType.NamedType # <<>> THEN
        (IF ~gqlType.NonNull THEN NewPointer(baseType) ELSE baseType)
    ELSE IF gqlType.Elem # <<>> THEN
        LET elemBaseType == NewPointer(baseType)
            wrappedElem  == wrapWithListAndNullability(elemBaseType, gqlType.Elem[1])
            sliceType    == NewSlice(wrappedElem)
        IN  IF ~gqlType.NonNull THEN NewPointer(sliceType) ELSE sliceType
    ELSE baseType

(***************************************************************************)
(* Field records and struct construction                                   *)
(***************************************************************************)
\* newField(typeKind, fieldType, name, tags): Tags holds one tag string
newFieldRecord(typeKind, fieldType, name, tag) ==
    [Name |-> name, Type |-> fieldType, Tags |-> tag, TypeKind |-> typeKind]

\* the tag text `json:"<value>"`
JsonTag(value) == <<"j","s","o","n",":","\"">> \o value \o <<"\"">>
str_omitempty == <<",","o","m","i","t","e","m","p","t","y">>
str_omitzero  == <<",","o","m","i","t","z","e","r","o">>
str_dash      == <<"-">>

\* jsonOmitTag(field)
jsonOmitTag(cfg, sel) ==
    IF sel.Type[1].NonNull
    THEN (IF cfg.Omitempty THEN str_omitempty ELSE <<>>)
         \o (IF cfg.Omitzero THEN str_omitzero ELSE <<>>)
    ELSE <<>>

\* Field.goVar
goVar(r) == NewVar(ToGo(r.Name), r.Type, r.TypeKind = "FragmentSpread", r.Tags)

\* the smallest string of a non-empty set under strings.Compare
MinStr(S) == CHOOSE x \in S : \A y \in S : Compare(x, y) <= 0
RECURSIVE SortStrs(_)
SortStrs(S) ==
    IF S = {} THEN <<>>
    ELSE LET Rest(m) == <<m>> \o SortStrs(S \ {m})
         IN  Rest(MinStr(S))

\* the record the map holds for a name: the last one written
LastByName(fs, n) == fs[CHOOSE i \in 1..Len(fs) :
                          /\ fs[i].Name = n
                          /\ \A j \in (i + 1)..Len(fs) : fs[j].Name # n]

\* uniqueByName that sorts by Name without collapsing equal names
uniqueByNameKeepingAll(fs) ==
    LET names == SortStrs({fs[i].Name : i \in 1..Len(fs)})
        At(n) == {i \in 1..Len(fs) : fs[i].Name = n}
        RECURSIVE Pick(_, _)
        Pick(k, idx) ==
            IF k > Len(names) THEN <<>>
            ELSE IF idx = {} THEN Pick(k + 1, IF k + 1 > Len(names) THEN {} ELSE At(names[k + 1]))
            ELSE LET i == CHOOSE x \in idx : \A y \in idx : x <= y
                 IN  <<fs[i]>> \o Pick(k, idx \ {i})
    IN  IF fs = <<>> THEN <<>> ELSE Pick(1, At(names[1]))

\* uniqueByName keeping, for each name, the first record written
uniqueByNameFirstWins(fs) ==
    LET names == SortStrs({fs[i].Name : i \in 1..Len(fs)})
        First(n) == fs[CHOOSE i \in 1..Len(fs) :
                          fs[i].Name = n /\ \A k \in 1..(i - 1) : fs[k].Name # n]
    IN  [i \in 1..Len(names) |-> First(names[i])]

\* Fields.uniqueByName: a map keyed by Name, then sorted by Name
uniqueByName(fs) ==
    LET names == SortStrs({fs[i].Name : i \in 1..Len(fs)})
    IN  [i \in 1..Len(names) |-> LastByName(fs, names[i])]

\* Fields.goStructType
goStructType(fs) ==
    LET fields == uniqueByName(fs)
    IN  NewStruct([i \in 1..Len(fields) |-> goVar(fields[i])])

MapPut(m, k, v) == [x \in (DOMAIN m) \cup {k} |-> IF x = k THEN v ELSE m[x]]

\* newGoNamedType: the type it returns and the generator after
\* g.types[namedType.String()] = namedType.  gen is the GoTypeGenerator: its
\* types map and the number of TypeName objects allocated so far.
newGoNamedType(gen, typeName, nonnull, t) ==
    LET named     == NewNamed(gen.created + 1, typeName, t)
        namedType == IF ~nonnull THEN NewPointer(named) ELSE named
    IN  [t |-> namedType,
         g |-> [types |-> MapPut(gen.types, TypeString(namedType), namedType),
                created |-> gen.created + 1]]

(***************************************************************************)
(* newFields / newField / newTypeKindAndGoType: the walk over a selection  *)
(* set.  gen is the GoTypeGenerator, threaded through the recursion; doc    *)
(* carries the configuration and the fragment registry.  log records, for  *)
(* every scope whose struct is built, the field records newFields returned *)
(* for it.  Intermediate results are handed to local operators.           *)
(***************************************************************************)
RECURSIVE newFieldsFrom(_, _, _, _, _, _, _)
RECURSIVE newField(_, _, _, _)

\* newFields: the loop of lines 51-53, from index i with fields collected so far
newFieldsFrom(gen, doc, parentTypeName, selectionSet, i, acc, log) ==
    IF i > Len(selectionSet) THEN [fields |-> acc, g |-> gen, log |-> log]
    ELSE LET Rest(r) == newFieldsFrom(r.g, doc, parentTypeName, selectionSet, i + 1,
                                      Append(acc, r.f), log \cup r.log)
         IN  Rest(newField(gen, doc, parentTypeName, selectionSet[i]))

newFields(gen, doc, parentTypeName, selectionSet) ==
    newFieldsFrom(gen, doc, parentTypeName, selectionSet, 1, <<>>, {})

\* a logged scope: the kind of selection that opened it, the name of its type,
\* the (parent scope, alias) pair it was named from, and its field records
Scope(kind, name, parent, alias, fields) ==
    [kind |-> kind, name |-> name, parent |-> parent, alias |-> alias, fields |-> fields]

\* newTypeKindAndGoType: r is what newFields returned, n what newGoNamedType
\* returned
newTypeKindAndGoType(gen, doc, parentTypeName, sel) ==
    LET Object(typeName, r, n) ==
            [kind |-> "Object",
             t    |-> wrapWithListAndNullability(n.t, sel.Type[1]),
             g    |-> n.g,
             log  |-> r.log \cup {Scope("Object", typeName, parentTypeName, sel.Name, r.fields)}]
        Kind(typeName, r) ==
            IF Len(r.fields) = 0
            THEN [kind |-> "Scalar", t |-> buildGoType(sel.Type[1]), g |-> r.g, log |-> r.log]
            ELSE Object(typeName, r, newGoNamedType(r.g, typeName, TRUE, goStructType(r.fields)))
        Fields(typeName) == Kind(typeName, newFields(gen, doc, typeName, sel.SelectionSet))
    IN  Fields(fieldTypeName(parentTypeName, sel.Name, doc.cfg.ExportQueryType))

\* the type newField gives the record of an inline fragment
inlineFragmentType(structType) == structType

newField(gen, doc, parentTypeName, sel) ==
    LET OfField(r) ==
            [f |-> newFieldRecord(r.kind, r.t, sel.Name,
                                  JsonTag(sel.Name \o jsonOmitTag(doc.cfg, sel))),
             g |-> r.g, log |-> r.log]
        OfSpreadNamed(r, n) ==
            [f |-> newFieldRecord("FragmentSpread", n.t, sel.Name, JsonTag(str_dash)),
             g |-> n.g,
             log |-> r.log \cup {Scope("FragmentSpread", sel.Name, parentTypeName, sel.Name, r.fields)}]
        OfSpread(r) ==
            OfSpreadNamed(r, newGoNamedType(r.g, sel.Name, TRUE, goStructType(r.fields)))
        OfInline(r) ==
            [f |-> newFieldRecord("InlineFragment",
                                  inlineFragmentType(goStructType(r.fields)),
                                  sel.Name, JsonTag(str_dash)),
             g |-> r.g,
             log |-> r.log \cup {Scope("InlineFragment", sel.Name, parentTypeName, sel.Name, r.fields)}]
    IN  IF sel.kind = "Field"
        THEN OfField(newTypeKindAndGoType(gen, doc, parentTypeName, sel))
        ELSE IF sel.kind = "FragmentSpread"
        THEN OfSpread(newFields(gen, doc, sel.Name, doc.frags[sel.Name]))
        ELSE IF sel.kind = "InlineFragment"
        THEN OfInline(newFields(gen, doc, <<>>, sel.SelectionSet))
        ELSE [f |-> newFieldRecord("panic", Panic(sel.Name), sel.Name, <<>>), g |-> gen, log |-> {}]

\* CreateGoTypes, the body of the loop for one operation
CreateGoTypesOp(gen, doc, operation) ==
    LET Named(r, n) ==
            [g |-> n.g,
             log |-> r.log \cup {Scope("Operation", operation.Name, <<>>, operation.Name, r.fields)}]
        Fields(r) == Named(r, newGoNamedType(r.g, operation.Name, FALSE, goStructType(r.fields)))
    IN  Fields(newFields(gen, doc, operation.Name, operation.SelectionSet))

\* goTypes: the values of g.types sorted by String() without a leading "*".
\* The values reach the sort in map iteration order and the comparison is not
\* total, so every order the comparison allows is a possible result.
CanonicalName(t) == TrimStar(TypeString(t))

RECURSIVE SortedOrders(_, _)
SortedOrders(m, keys) ==
    IF keys = {} THEN {<<>>}
    ELSE LET mins == {k \in keys : \A j \in keys :
                         Compare(CanonicalName(m[k]), CanonicalName(m[j])) <= 0}
         IN  UNION {{<<m[k]>> \o rest : rest \in SortedOrders(m, keys \ {k})} : k \in mins}

\* goTypes comparing String() with the leading "*" kept
goTypesByString(m) == {[i \in 1..Len(SortStrs(DOMAIN m)) |-> m[SortStrs(DOMAIN m)[i]]]}

goTypesOf(m) == SortedOrders(m, DOMAIN m)

(***************************************************************************)
(* querygen.FieldAnalyzer                                                  *)
(***************************************************************************)
\* the position of the first c in s at or after i, 0 when there is none
RECURSIVE IndexFrom(_, _, _)
IndexFrom(s, c, i) ==
    IF i > Len(s) THEN 0 ELSE IF s[i] = c THEN i ELSE IndexFrom(s, c, i + 1)

str_jsonKey == <<"j","s","o","n",":","\"">>

\* reflect.StructTag(tag).Get("json") for the one-key tags the generator writes
StructTagGetJson(tag) ==
    IF Len(tag) > Len(str_jsonKey) /\ SubSeq(tag, 1, Len(str_jsonKey)) = str_jsonKey
    THEN LET close == IndexFrom(tag, "\"", Len(str_jsonKey) + 1)
         IN  IF close = 0 THEN <<>> ELSE SubSeq(tag, Len(str_jsonKey) + 1, close - 1)
    ELSE <<>>

\* FieldAnalyzer.parseJSONTag
parseJSONTag(tag) ==
    IF tag = <<>> THEN <<>>
    ELSE LET value == StructTagGetJson(tag)
             idx   == IndexFrom(value, ",", 1)
         IN  IF value = <<>> THEN <<>>
             ELSE IF idx > 0 THEN SubSeq(value, 1, idx - 1)
             ELSE value

\* types.Var.Exported
Exported(v) == v.name # <<>> /\ IsUpper(Head(v.name))

\* FieldAnalyzer.IsInlineFragment(field, tag)
IsInlineFragment(field) ==
    IF ~Exported(field) THEN FALSE
    ELSE IF parseJSONTag(field.tag) # <<>> /\ parseJSONTag(field.tag) # str_dash THEN FALSE
    ELSE field.type.kind = "Pointer"

\* unwrapToNamedStruct: <<>> is nil
RECURSIVE unwrapToNamedStruct(_)
unwrapToNamedStruct(t) ==
    IF t.kind = "Named" THEN (IF t.elem[1].kind = "Struct" THEN <<t>> ELSE <<>>)
    ELSE IF t.kind = "Pointer" THEN unwrapToNamedStruct(t.elem[1])
    ELSE <<>>

\* unwrapToStruct: <<>> is nil
RECURSIVE unwrapToStruct(_)
unwrapToStruct(t) ==
    IF t.kind = "Struct" THEN <<t>>
    ELSE IF t.kind = "Named" THEN (IF t.elem[1].kind = "Struct" THEN <<t.elem[1]>> ELSE <<>>)
    ELSE IF t.kind = "Pointer" THEN unwrapToStruct(t.elem[1])
    ELSE <<>>

\* findEmbeddedTypes: the TypeName objects of the named structs that are
\* anonymous fields of the named structs of goTypes
findEmbeddedTypes(types) ==
    UNION {
        IF unwrapToNamedStruct(types[i]) = <<>> THEN {}
        ELSE {unwrapToNamedStruct(f.type)[1].obj :
                 f \in {x \in {unwrapToNamedStruct(types[i])[1].elem[1].fields[k] :
                                  k \in 1..Len(unwrapToNamedStruct(types[i])[1].elem[1].fields)} :
                           x.embedded /\ unwrapToNamedStruct(x.type) # <<>>}}
        : i \in 1..Len(types)}

\* CodeGenerator.shouldGenerateUnmarshal(named), named = <<>> is nil
shouldGenerateUnmarshal(skip, named) ==
    IF named = <<>> THEN FALSE ELSE named[1].obj \notin skip

\* FieldInfo.  TypeName and PointerElemType are the types LookupType prints.
FieldInfo(field, tag) ==
    [Name |-> field.name, Type |-> field.type, TypeName |-> TypeString(field.type),
     JSONTag |-> parseJSONTag(tag), IsExported |-> Exported(field),
     IsEmbedded |-> field.embedded, IsInlineFragment |-> FALSE,
     IsPointer |-> FALSE, PointerElemType |-> <<>>, SubFields |-> <<>>]

\* FieldAnalyzer.AnalyzeFields / analyzeField
RECURSIVE AnalyzeFields(_, _)
analyzeField(skip, field) ==
    LET Inline(info) ==
            IF IsInlineFragment(field)
            THEN [info EXCEPT !.IsInlineFragment = TRUE,
                              !.IsPointer = (field.type.kind = "Pointer"),
                              !.PointerElemType = IF field.type.kind = "Pointer"
                                                  THEN field.type.elem ELSE <<>>]
            ELSE info
        Embedded(info) ==
            IF info.IsEmbedded /\ ~info.IsInlineFragment
            THEN IF /\ unwrapToNamedStruct(field.type) # <<>>
                    /\ shouldGenerateUnmarshal(skip, unwrapToNamedStruct(field.type))
                 THEN info
                 ELSE IF unwrapToStruct(field.type) # <<>>
                 THEN [info EXCEPT !.SubFields = AnalyzeFields(skip, unwrapToStruct(field.type)[1])]
                 ELSE info
            ELSE info
    IN  Embedded(Inline(FieldInfo(field, field.tag)))

AnalyzeFields(skip, structType) ==
    [i \in 1..Len(structType.fields) |-> analyzeField(skip, structType.fields[i])]

\* CodeGenerator.analyzeType: err when t is not a named struct
analyzeType(skip, t) ==
    LET OfNamed(u) ==
            IF u.kind # "Named" \/ u.elem[1].kind # "Struct"
            THEN [err |-> TRUE, Named |-> <<>>, Struct |-> <<>>, TypeName |-> <<>>,
                  Fields |-> <<>>, ShouldGenerateUnmarshal |-> FALSE]
            ELSE [err |-> FALSE, Named |-> <<u>>, Struct |-> <<u.elem[1]>>, TypeName |-> u.name,
                  Fields |-> AnalyzeFields(skip, u.elem[1]),
                  ShouldGenerateUnmarshal |-> shouldGenerateUnmarshal(skip, <<u>>)]
    IN  OfNamed(IF t.kind = "Pointer" THEN t.elem[1] ELSE t)

(***************************************************************************)
(* querygen statements and the UnmarshalBuilder.  A Go expression of a     *)
(* statement is kept in parts: the call json.Unmarshal(src, [&]dst) as the *)
(* record Unmarshal(src, amp, dst), the condition `bind, ok := raw[key];   *)
(* ok` as Lookup(bind, rawExpr, key); dst, rawExpr and variable names are  *)
(* the texts the generator formats.                                        *)
(***************************************************************************)
str_t        == <<"t">>
str_raw      == <<"r","a","w">>
str_typeName == <<"t","y","p","e","N","a","m","e","_">>
str_typenameKey == <<"_","_","t","y","p","e","n","a","m","e">>

UnmarshalCall(src, amp, dst) == [src |-> src, amp |-> amp, dst |-> dst]
Lookup(bind, rawExpr, key) == [bind |-> bind, rawExpr |-> rawExpr, key |-> key]

VariableDecl(name, type) == [op |-> "VariableDecl", Name |-> name, Type |-> type]
IfStatement(cond, body) == [op |-> "IfStatement", Condition |-> cond, Body |-> body]
SwitchCase(value, body) == [Value |-> value, Body |-> body]
SwitchStatement(expr, cases) == [op |-> "SwitchStatement", Expr |-> expr, Cases |-> cases]
Assignment(target, value) == [op |-> "Assignment", Target |-> target, Value |-> value]
\* a return statement that returns err whatever value it is given
ReturnStatementOfErr(value) == [op |-> "ReturnStatement", Value |-> "err"]
ReturnStatement(value) == [op |-> "ReturnStatement", Value |-> value]
RawStatement(code) == [op |-> "RawStatement", Code |-> code]
ErrorCheckStatement(errorExpr, body) ==
    [op |-> "ErrorCheckStatement", ErrorExpr |-> errorExpr, Body |-> body]

\* fmt.Sprintf("%s.%s", a, b)
Dot(a, b) == a \o <<".">> \o b

\* DecodeField looking the value up under the Go field name
DecodeFieldByGoName(targetExpr, rawExpr, field) ==
    IfStatement(Lookup("value", rawExpr, field.Name),
                <<ErrorCheckStatement(UnmarshalCall("value", TRUE, Dot(targetExpr, field.Name)),
                                      <<ReturnStatement("err")>>)>>)

\* FieldDecoder.DecodeField
DecodeField(targetExpr, rawExpr, field) ==
    IfStatement(Lookup("value", rawExpr, field.JSONTag),
                <<ErrorCheckStatement(UnmarshalCall("value", TRUE, Dot(targetExpr, field.Name)),
                                      <<ReturnStatement("err")>>)>>)

\* DecodeFields without the filter on the tag and the identifier
RECURSIVE DecodeFieldsUnfiltered(_, _, _)
DecodeFieldsUnfiltered(targetExpr, rawExpr, fields) ==
    IF fields = <<>> THEN <<>>
    ELSE <<DecodeField(targetExpr, rawExpr, Head(fields))>>
         \o DecodeFieldsUnfiltered(targetExpr, rawExpr, Tail(fields))

\* DecodeFields stopping after the first field
DecodeFieldsFirstOnly(targetExpr, rawExpr, fields) ==
    IF fields = <<>> THEN <<>>
    ELSE IF Head(fields).JSONTag = <<>> \/ Head(fields).JSONTag = str_dash THEN <<>>
    ELSE IF ~Head(fields).IsExported THEN <<>>
    ELSE <<DecodeField(targetExpr, rawExpr, Head(fields))>>

\* FieldDecoder.DecodeFields
RECURSIVE DecodeFields(_, _, _)
DecodeFields(targetExpr, rawExpr, fields) ==
    IF fields = <<>> THEN <<>>
    ELSE (IF Head(fields).JSONTag = <<>> \/ Head(fields).JSONTag = str_dash THEN <<>>
          ELSE IF ~Head(fields).IsExported THEN <<>>
          ELSE <<DecodeField(targetExpr, rawExpr, Head(fields))>>)
         \o DecodeFields(targetExpr, rawExpr, Tail(fields))

\* InlineFragmentDecoder.createSwitchCases
createSwitchCases(fragments) ==
    [i \in 1..Len(fragments) |->
        SwitchCase(fragments[i].Field.Name,
                   <<Assignment(fragments[i].FieldExpr, fragments[i].ElemTypeStr),
                     ErrorCheckStatement(UnmarshalCall("data", FALSE, fragments[i].FieldExpr),
                                         <<ReturnStatement("err")>>)>>)]

\* DecodeInlineFragments running the body of every case, whatever __typename
DecodeInlineFragmentsUnconditional(targetExpr, rawExpr, fragments) ==
    IF Len(fragments) = 0 THEN <<>>
    ELSE <<VariableDecl(str_typeName \o ReplaceDots(targetExpr), "string"),
           IfStatement(Lookup("typename", rawExpr, str_typenameKey),
                       <<RawStatement(UnmarshalCall("typename", TRUE,
                                                    str_typeName \o ReplaceDots(targetExpr)))>>)>>
         \o Concat([i \in 1..Len(fragments) |-> createSwitchCases(fragments)[i].Body])

\* InlineFragmentDecoder.DecodeInlineFragments
DecodeInlineFragments(targetExpr, rawExpr, fragments) ==
    IF Len(fragments) = 0 THEN <<>>
    ELSE <<VariableDecl(str_typeName \o ReplaceDots(targetExpr), "string"),
           IfStatement(Lookup("typename", rawExpr, str_typenameKey),
                       <<RawStatement(UnmarshalCall("typename", TRUE,
                                                    str_typeName \o ReplaceDots(targetExpr)))>>),
           SwitchStatement(str_typeName \o ReplaceDots(targetExpr), createSwitchCases(fragments))>>

InlineFragmentInfo(field, fieldExpr, elemTypeStr) ==
    [Field |-> field, FieldExpr |-> fieldExpr, ElemTypeStr |-> elemTypeStr]

\* the fields at the positions of S, in order
RECURSIVE FieldsAt(_, _, _)
FieldsAt(fields, S, i) ==
    IF i > Len(fields) THEN <<>>
    ELSE (IF i \in S THEN <<fields[i]>> ELSE <<>>) \o FieldsAt(fields, S, i + 1)

\* UnmarshalBuilder.categorizeFieldsListWithPath: the three lists
categorizeFieldsListWithPath(fields, parentPath) ==
    LET IsInline(f) == f.IsInlineFragment
        IsSpread(f) == ~f.IsInlineFragment /\ f.IsEmbedded
                          /\ (f.JSONTag = <<>> \/ f.JSONTag = str_dash)
        Infos(fs) == [i \in 1..Len(fs) |->
                         InlineFragmentInfo(fs[i], Dot(parentPath, fs[i].Name), fs[i].PointerElemType)]
    IN  [regularFields   |-> FieldsAt(fields, {i \in 1..Len(fields) :
                                 ~IsInline(fields[i]) /\ ~IsSpread(fields[i])}, 1),
         fragmentSpreads |-> FieldsAt(fields, {i \in 1..Len(fields) : IsSpread(fields[i])}, 1),
         inlineFragments |-> Infos(FieldsAt(fields, {i \in 1..Len(fields) : IsInline(fields[i])}, 1))]

\* UnmarshalBuilder.buildFragmentUnmarshalStatement
buildFragmentUnmarshalStatement(field) ==
    ErrorCheckStatement(UnmarshalCall("data", TRUE, Dot(str_t, field.Name)),
                        <<ReturnStatement("err")>>)

\* UnmarshalBuilder.decodeFragmentSpreads / decodeSingleFragmentSpread /
\* decodeNestedFields
RECURSIVE decodeFragmentSpreads(_)
\* decodeNestedFields that also decodes the fragment's own fields key by key
decodeNestedFieldsPerKey(parentField) ==
    LET Of(c) == DecodeFields(Dot(str_t, parentField.Name), str_raw, c.regularFields)
                 \o decodeFragmentSpreads(c.fragmentSpreads)
                 \o DecodeInlineFragments(Dot(str_t, parentField.Name), str_raw, c.inlineFragments)
    IN  Of(categorizeFieldsListWithPath(parentField.SubFields, Dot(str_t, parentField.Name)))

decodeNestedFields(parentField) ==
    LET Of(c) == decodeFragmentSpreads(c.fragmentSpreads)
                 \o DecodeInlineFragments(Dot(str_t, parentField.Name), str_raw, c.inlineFragments)
    IN  Of(categorizeFieldsListWithPath(parentField.SubFields, Dot(str_t, parentField.Name)))

decodeSingleFragmentSpread(field) ==
    <<buildFragmentUnmarshalStatement(field)>>
    \o (IF Len(field.SubFields) > 0 THEN decodeNestedFields(field) ELSE <<>>)

decodeFragmentSpreads(fragmentSpreads) ==
    IF fragmentSpreads = <<>> THEN <<>>
    ELSE decodeSingleFragmentSpread(Head(fragmentSpreads))
         \o decodeFragmentSpreads(Tail(fragmentSpreads))

\* BuildUnmarshalMethod that dispatches the inline fragments before it
\* unmarshals the fragment spreads
BuildUnmarshalMethodInlineFirst(typeInfo) ==
    LET Of(c) ==
            <<VariableDecl(str_raw, "map[string]jsontext.Value"),
              ErrorCheckStatement(UnmarshalCall("data", TRUE, str_raw), <<ReturnStatement("err")>>)>>
            \o DecodeFields(str_t, str_raw, c.regularFields)
            \o DecodeInlineFragments(str_t, str_raw, c.inlineFragments)
            \o decodeFragmentSpreads(c.fragmentSpreads)
            \o <<ReturnStatement("nil")>>
    IN  Of(categorizeFieldsListWithPath(typeInfo.Fields, str_t))

\* UnmarshalBuilder.BuildUnmarshalMethod
BuildUnmarshalMethod(typeInfo) ==
    LET Of(c) ==
            <<VariableDecl(str_raw, "map[string]jsontext.Value"),
              ErrorCheckStatement(UnmarshalCall("data", TRUE, str_raw), <<ReturnStatement("err")>>)>>
            \o DecodeFields(str_t, str_raw, c.regularFields)
            \o decodeFragmentSpreads(c.fragmentSpreads)
            \o DecodeInlineFragments(str_t, str_raw, c.inlineFragments)
            \o <<ReturnStatement("nil")>>
    IN  Of(categorizeFieldsListWithPath(typeInfo.Fields, str_t))

\* CodeGenerator.Generate: the analysis of the type and, for
\* generateTypeCode, the statements of its UnmarshalJSON (<<>> when none is
\* written)
Generate(skip, t) ==
    LET Emit(typeInfo) ==
            [typeInfo   |-> typeInfo,
             statements |-> IF ~typeInfo.err /\ typeInfo.ShouldGenerateUnmarshal
                            THEN BuildUnmarshalMethod(typeInfo) ELSE <<>>]
    IN  Emit(analyzeType(skip, t))

(***************************************************************************)
(* The generated code at run time.  prog is the sequence of generated      *)
(* types (declaration and UnmarshalJSON statements); a Go type is looked   *)
(* up in it by name.  JSON values are null, strings, the number 1 and      *)
(* objects; a Go string is its text, a pointer is <<>> (nil) or <<v>>, a   *)
(* struct value is the sequence of its field values.                       *)
(***************************************************************************)
JNull   == [k |-> "null", s |-> <<>>, o |-> <<>>]
JStr(s) == [k |-> "str",  s |-> s,    o |-> <<>>]
JNum    == [k |-> "num",  s |-> <<>>, o |-> <<>>]
JObj(o) == [k |-> "obj",  s |-> <<>>, o |-> o]

\* the declaration of the type called name
DeclOf(prog, name) == prog[CHOOSE i \in 1..Len(prog) : prog[i].typeInfo.TypeName = name]
Declared(prog, name) == \E i \in 1..Len(prog) : prog[i].typeInfo.TypeName = name

\* the struct a struct-typed variable has at run time
StructOf(prog, t) == IF t.kind = "Named" THEN DeclOf(prog, t.name).typeInfo.Struct[1] ELSE t

\* the name a struct field is selected by: an embedded field by its type name
GoFieldName(f) == IF f.embedded THEN unwrapToNamedStruct(f.type)[1].name ELSE f.name

RECURSIVE Zero(_, _)
Zero(prog, t) ==
    IF t.kind = "Basic" THEN (IF t.name = str_int THEN 0 ELSE <<>>)
    ELSE IF t.kind \in {"Pointer", "Slice"} THEN <<>>
    ELSE [i \in 1..Len(StructOf(prog, t).fields) |-> Zero(prog, StructOf(prog, t).fields[i].type)]

RECURSIVE GetAt(_, _)
GetAt(v, path) == IF path = <<>> THEN v ELSE GetAt(v[Head(path)], Tail(path))

RECURSIVE SetAt(_, _, _)
SetAt(v, path, x) ==
    IF path = <<>> THEN x
    ELSE [v EXCEPT ![Head(path)] = SetAt(v[Head(path)], Tail(path), x)]

RECURSIVE TypeAt(_, _, _)
TypeAt(prog, t, path) ==
    IF path = <<>> THEN t ELSE TypeAt(prog, StructOf(prog, t).fields[Head(path)].type, Tail(path))

\* Go selectors: the paths to the fields called name in struct st, through
\* embedded structs; the selector denotes the one at the shallowest depth
RECURSIVE AllPaths(_, _, _)
AllPaths(prog, st, name) ==
    {<<i>> : i \in {k \in 1..Len(st.fields) : GoFieldName(st.fields[k]) = name}}
    \cup UNION {{<<i>> \o p : p \in AllPaths(prog, StructOf(prog, st.fields[i].type), name)} :
                   i \in {k \in 1..Len(st.fields) : st.fields[k].embedded}}

Shallowest(P) == {p \in P : \A q \in P : Len(p) <= Len(q)}

\* the segments of a selector expression: "t.F.G" is <<"t", "F", "G">>
RECURSIVE SplitDots(_, _)
SplitDots(s, cur) ==
    IF s = <<>> THEN <<cur>>
    ELSE IF Head(s) = "." THEN <<cur>> \o SplitDots(Tail(s), <<>>)
    ELSE SplitDots(Tail(s), Append(cur, Head(s)))

\* the field path a selector denotes in a value of type t, <<>> when the
\* selector does not compile
RECURSIVE ResolveSegs(_, _, _)
ResolveSegs(prog, t, segs) ==
    IF t.kind \notin {"Named", "Struct"} THEN <<>>
    ELSE LET Found(P) ==
                 IF Cardinality(P) # 1 THEN <<>>
                 ELSE LET Here(p) ==
                              IF Len(segs) = 1 THEN <<p>>
                              ELSE LET Deeper(r) == IF r = <<>> THEN <<>> ELSE <<p \o r[1]>>
                                   IN  Deeper(ResolveSegs(prog, TypeAt(prog, t, p), Tail(segs)))
                      IN  Here(CHOOSE p \in P : TRUE)
         IN  Found(Shallowest(AllPaths(prog, StructOf(prog, t), Head(segs))))

ResolveExpr(prog, t, expr) == ResolveSegs(prog, t, Tail(SplitDots(expr, <<>>)))

\* the UnmarshalJSON a value of type t has: its own, or the one promoted from
\* the embedded field at the shallowest depth; the path to the receiver, in
\* <<..>>, or <<>> when the type has none
HasOwnUnmarshal(prog, t) == t.kind = "Named" /\ DeclOf(prog, t.name).statements # <<>>

RECURSIVE PromotedPaths(_, _)
PromotedPaths(prog, st) ==
    UNION {IF HasOwnUnmarshal(prog, st.fields[i].type) THEN {<<i>>}
           ELSE {<<i>> \o p : p \in PromotedPaths(prog, StructOf(prog, st.fields[i].type))} :
              i \in {k \in 1..Len(st.fields) : st.fields[k].embedded}}

UnmarshalerPath(prog, t) ==
    IF HasOwnUnmarshal(prog, t) THEN << <<>> >>
    ELSE LET One(P) == IF Cardinality(P) = 1 THEN <<CHOOSE p \in P : TRUE>> ELSE <<>>
         IN  One(Shallowest(PromotedPaths(prog, StructOf(prog, t))))

(***************************************************************************)
(* json.Unmarshal (encoding/json/v2) as the generated code calls it, and   *)
(* the execution of the statements of a generated UnmarshalJSON.  The      *)
(* state of an execution: t the receiver, raw the raw map, vars the string *)
(* variables, bound the value bound by the enclosing if, done / err the    *)
(* return, trace the json.Unmarshal calls made with their outcome.         *)
(***************************************************************************)
RECURSIVE Unmarshal(_, _, _, _)
RECURSIVE ExecFrom(_, _, _, _, _, _)

StartState(cur) ==
    [t |-> cur, raw |-> <<>>, vars |-> <<>>, bound |-> JNull,
     done |-> FALSE, err |-> FALSE, trace |-> <<>>]

\* the UnmarshalJSON of the declared type t on data, receiver holding cur
UnmarshalJSON(prog, t, data, cur) ==
    ExecFrom(prog, t, data, StartState(cur), DeclOf(prog, t.name).statements, 1)

\* decoding of a JSON object into a struct without UnmarshalJSON: the
\* exported fields with a key, matched by name
DecodeStruct(prog, st, o, cur) ==
    LET Keyed(f) == /\ Exported(f)
                    /\ parseJSONTag(f.tag) # <<>>
                    /\ parseJSONTag(f.tag) # str_dash
                    /\ parseJSONTag(f.tag) \in DOMAIN o
        Of(rs) == [err |-> \E i \in 1..Len(rs) : rs[i].err,
                   v   |-> [i \in 1..Len(rs) |-> rs[i].v]]
    IN  Of([i \in 1..Len(st.fields) |->
               IF Keyed(st.fields[i])
               THEN Unmarshal(prog, st.fields[i].type, o[parseJSONTag(st.fields[i].tag)], cur[i])
               ELSE [err |-> FALSE, v |-> cur[i]]])

\* json.Unmarshal(j, &x) for x of type t holding cur
Unmarshal(prog, t, j, cur) ==
    IF t.kind = "Pointer" THEN
        IF j.k = "null" THEN [err |-> FALSE, v |-> <<>>]
        ELSE LET Ref(r) == [err |-> r.err, v |-> <<r.v>>]
             IN  Ref(Unmarshal(prog, t.elem[1], j,
                               IF cur = <<>> THEN Zero(prog, t.elem[1]) ELSE cur[1]))
    ELSE IF t.kind = "Basic" THEN
        IF j.k = "null" THEN [err |-> FALSE, v |-> Zero(prog, t)]
        ELSE IF t.name = str_string /\ j.k = "str" THEN [err |-> FALSE, v |-> j.s]
        ELSE IF t.name = str_int /\ j.k = "num" THEN [err |-> FALSE, v |-> 1]
        ELSE [err |-> TRUE, v |-> cur]
    ELSE IF t.kind = "Slice" THEN
        IF j.k = "null" THEN [err |-> FALSE, v |-> <<>>] ELSE [err |-> TRUE, v |-> cur]
    ELSE
        LET Method(mp) ==
                IF mp # <<>>
                THEN LET Ret(st) == [err |-> st.err, v |-> SetAt(cur, mp[1], st.t)]
                     IN  Ret(UnmarshalJSON(prog, TypeAt(prog, t, mp[1]), j, GetAt(cur, mp[1])))
                ELSE IF j.k = "obj" THEN DecodeStruct(prog, StructOf(prog, t), j.o, cur)
                ELSE IF j.k = "null" THEN [err |-> FALSE, v |-> Zero(prog, t)]
                ELSE [err |-> TRUE, v |-> cur]
        IN  Method(UnmarshalerPath(prog, t))

IsPrefix(p, s) == Len(p) <= Len(s) /\ SubSeq(s, 1, Len(p)) = p

\* one call json.Unmarshal(src, [&]dst) of a statement; the outcome is added
\* to the trace
Call(prog, t, data, st, c) ==
    LET src == IF c.src = "data" THEN data ELSE st.bound
        Log(r) == [r EXCEPT !.st.trace = Append(st.trace, [call |-> c, err |-> r.err])]
        Raw == IF src.k = "obj" THEN [err |-> FALSE, st |-> [st EXCEPT !.raw = src.o]]
               ELSE IF src.k = "null" THEN [err |-> FALSE, st |-> [st EXCEPT !.raw = <<>>]]
               ELSE [err |-> TRUE, st |-> st]
        Var(r) == [err |-> r.err, st |-> [st EXCEPT !.vars = MapPut(st.vars, c.dst, r.v)]]
        Field(p) ==
            LET Addr(r) == [err |-> r.err, st |-> [st EXCEPT !.t = SetAt(st.t, p, r.v)]]
                Ptr(r)  == [err |-> r.err, st |-> [st EXCEPT !.t = SetAt(st.t, p, <<r.v>>)]]
            IN  IF c.amp
                THEN Addr(Unmarshal(prog, TypeAt(prog, t, p), src, GetAt(st.t, p)))
                ELSE IF GetAt(st.t, p) = <<>> THEN [err |-> TRUE, st |-> st]
                ELSE Ptr(Unmarshal(prog, TypeAt(prog, t, p).elem[1], src, GetAt(st.t, p)[1]))
    IN  Log(IF c.dst = str_raw THEN Raw
            ELSE IF IsPrefix(str_typeName, c.dst)
            THEN Var(Unmarshal(prog, Basic(str_string), src, st.vars[c.dst]))
            ELSE Field(ResolveExpr(prog, t, c.dst)[1]))

\* one statement
ExecStatement(prog, t, data, st, stmt) ==
    IF stmt.op = "VariableDecl" THEN
        (IF stmt.Name = str_raw THEN [st EXCEPT !.raw = <<>>]
         ELSE [st EXCEPT !.vars = MapPut(st.vars, stmt.Name, <<>>)])
    ELSE IF stmt.op = "ErrorCheckStatement" THEN
        LET Check(r) == IF r.err THEN ExecFrom(prog, t, data, r.st, stmt.Body, 1) ELSE r.st
        IN  Check(Call(prog, t, data, st, stmt.ErrorExpr))
    ELSE IF stmt.op = "RawStatement" THEN
        Call(prog, t, data, st, stmt.Code).st
    ELSE IF stmt.op = "IfStatement" THEN
        (IF stmt.Condition.key \in DOMAIN st.raw
         THEN ExecFrom(prog, t, data, [st EXCEPT !.bound = st.raw[stmt.Condition.key]],
                       stmt.Body, 1)
         ELSE st)
    ELSE IF stmt.op = "SwitchStatement" THEN
        LET Matching == {i \in 1..Len(stmt.Cases) : stmt.Cases[i].Value = st.vars[stmt.Expr]}
        IN  IF Matching = {} THEN st
            ELSE ExecFrom(prog, t, data, st,
                          stmt.Cases[CHOOSE i \in Matching : \A k \in Matching : i <= k].Body, 1)
    ELSE IF stmt.op = "Assignment" THEN
        [st EXCEPT !.t = SetAt(st.t, ResolveExpr(prog, t, stmt.Target)[1],
                               <<Zero(prog, stmt.Value[1])>>)]
    ELSE [st EXCEPT !.done = TRUE, !.err = (stmt.Value = "err")]

\* the statements from position i on, until one returns
ExecFrom(prog, t, data, st, stmts, i) ==
    IF st.done \/ i > Len(stmts) THEN st
    ELSE ExecFrom(prog, t, data, ExecStatement(prog, t, data, st, stmts[i]), stmts, i + 1)

\* the set of selector expressions in statements
RECURSIVE Targets(_)
Targets(stmts) ==
    UNION {IF stmts[i].op = "ErrorCheckStatement"
           THEN {stmts[i].ErrorExpr.dst} \cup Targets(stmts[i].Body)
           ELSE IF stmts[i].op = "RawStatement" THEN {stmts[i].Code.dst}
           ELSE IF stmts[i].op = "IfStatement" THEN Targets(stmts[i].Body)
           ELSE IF stmts[i].op = "SwitchStatement"
           THEN UNION {Targets(stmts[i].Cases[k].Body) : k \in 1..Len(stmts[i].Cases)}
           ELSE IF stmts[i].op = "Assignment" THEN {stmts[i].Target}
           ELSE {} : i \in 1..Len(stmts)}

\* the field types of struct st name declared types, and its fields have
\* distinct names
RECURSIVE StructCompiles(_, _)
StructCompiles(prog, st) ==
    /\ \A i, k \in 1..Len(st.fields) :
           (i # k /\ st.fields[i].name # <<"_">>) => GoFieldName(st.fields[i]) # GoFieldName(st.fields[k])
    /\ \A i \in 1..Len(st.fields) :
           /\ st.fields[i].type.kind # "panic"
           /\ unwrapToNamedStruct(st.fields[i].type) # <<>>
                  => Declared(prog, unwrapToNamedStruct(st.fields[i].type)[1].name)
           /\ (unwrapToNamedStruct(st.fields[i].type) = <<>>
                  /\ unwrapToStruct(st.fields[i].type) # <<>>)
                  => StructCompiles(prog, unwrapToStruct(st.fields[i].type)[1])

\* the generated file compiles: every type is declared once, the structs
\* compile and every selector of the statements denotes one field
Compiles(prog) ==
    /\ \A i \in 1..Len(prog) : ~prog[i].typeInfo.err
    /\ \A i, k \in 1..Len(prog) : i # k => prog[i].typeInfo.TypeName # prog[k].typeInfo.TypeName
    /\ \A i \in 1..Len(prog) : StructCompiles(prog, prog[i].typeInfo.Struct[1])
    /\ \A i \in 1..Len(prog) :
           \A e \in Targets(prog[i].statements) :
               (e # str_raw /\ ~IsPrefix(str_typeName, e))
                   => ResolveExpr(prog, prog[i].typeInfo.Named[1], e) # <<>>

(***************************************************************************)
(* Scenario 1: list / non-null wrapping of one field selection             *)
(***************************************************************************)
MaxListDepth == 3

EmptyMap == [x \in {} |-> <<>>]
NewGoTypeGenerator == [types |-> EmptyMap, created |-> 0]

RECURSIVE RefsOfDepth(_)
RefsOfDepth(d) ==
    IF d = 0 THEN {NamedRef(n, b) : n \in KnownModels, b \in BOOLEAN}
    ELSE {ListRef(e, b) : e \in RefsOfDepth(d - 1), b \in BOOLEAN}

TypeRefs == UNION {RefsOfDepth(d) : d \in 0..MaxListDepth}

str_a == <<"a">>
str_b == <<"b">>
str_x == <<"x">>
str_Op == <<"O","p">>

DefaultCfg == [ExportQueryType |-> FALSE, Omitempty |-> FALSE, Omitzero |-> FALSE]

\* the selection under test: a leaf, or an object with one leaf child
WrapSelection(ref, leaf) ==
    FieldSel(str_a, ref, IF leaf THEN <<>> ELSE <<FieldSel(str_x, NamedRef(str_String, TRUE), <<>>)>>)

InitWrap ==
    /\ pc = "wrap"
    /\ input \in {[ref |-> r, leaf |-> l] : r \in TypeRefs, l \in BOOLEAN}
    /\ g = NewGoTypeGenerator
    /\ opIdx = 0
    /\ scopes = {}
    /\ goTypes = <<>>
    /\ wrapped = <<>>
    /\ skipUnmarshal = {}
    /\ typeInfos = <<>>
    /\ run = <<>>

\* newTypeKindAndGoType on the selection, under the parent scope "Op"
WrapField ==
    /\ pc = "wrap"
    /\ LET r == newTypeKindAndGoType(g, [cfg |-> DefaultCfg, frags |-> EmptyMap],
                                     str_Op, WrapSelection(input.ref, input.leaf))
       IN  /\ wrapped' = <<[kind |-> r.kind, t |-> r.t]>>
           /\ g' = r.g
    /\ pc' = "wrapped"
    /\ UNCHANGED <<input, opIdx, scopes, goTypes, skipUnmarshal, typeInfos, run>>

NextWrap == WrapField

SpecWrap == InitWrap /\ [][NextWrap]_vars

\* the levels of a reference, outermost first: "ptr" where a level is
\* nullable, "slice" for a list, "base" for the named type
RECURSIVE RefShape(_)
RefShape(ref) ==
    (IF ref.NonNull THEN <<>> ELSE <<"ptr">>)
    \o (IF ref.NamedType # <<>> THEN <<"base">> ELSE <<"slice">> \o RefShape(ref.Elem[1]))

\* the levels of a Go type, outermost first
RECURSIVE GoShape(_)
GoShape(t) ==
    IF t.kind = "Pointer" THEN <<"ptr">> \o GoShape(t.elem[1])
    ELSE IF t.kind = "Slice" THEN <<"slice">> \o GoShape(t.elem[1])
    ELSE <<"base">>

\* position of the last "slice" of a shape, 0 when there is none
LastSlice(sh) ==
    IF \E i \in 1..Len(sh) : sh[i] = "slice"
    THEN CHOOSE i \in 1..Len(sh) : sh[i] = "slice" /\ \A j \in (i + 1)..Len(sh) : sh[j] # "slice"
    ELSE 0

MaxSel == 2

str_f == <<"f">>
str_u == <<"u">>
str_v == <<"v">>
str_F == <<"F">>
str_G == <<"G">>
str_H == <<"H">>
str_U == <<"U">>
str_V == <<"V">>
str_op == <<"o","p">>
str_Aa == <<"A","a">>

Leaf(alias, named, nonNull) == FieldSel(alias, NamedRef(named, nonNull), <<>>)

\* the fragment definitions of every document:
\*   fragment F on U { a ...G }   fragment G on U { b ... on V { a } }
\*   fragment H on V { b }
FragRegistry ==
    [n \in {str_F, str_G, str_H} |->
        IF n = str_F THEN <<Leaf(str_a, str_String, TRUE), SpreadSel(str_G)>>
        ELSE IF n = str_G THEN <<Leaf(str_b, str_String, FALSE),
                                 InlineSel(str_V, <<Leaf(str_a, str_String, TRUE)>>)>>
        ELSE <<Leaf(str_b, str_String, FALSE)>>]

\* the selections an operation's selection set is drawn from
TopPool == {
    Leaf(str_a, str_String, TRUE),
    Leaf(str_b, str_String, FALSE),
    FieldSel(str_u, NamedRef(str_U, FALSE), <<Leaf(str_b, str_String, FALSE)>>),
    FieldSel(str_u, NamedRef(str_U, FALSE), <<Leaf(str_a, str_String, TRUE)>>),
    FieldSel(str_U, ListRef(NamedRef(str_U, TRUE), FALSE), <<Leaf(str_b, str_String, FALSE)>>),
    FieldSel(str_v, NamedRef(str_V, TRUE), <<SpreadSel(str_H)>>),
    SpreadSel(str_F),
    SpreadSel(str_G),
    SpreadSel(str_H),
    InlineSel(str_U, <<Leaf(str_a, str_String, TRUE)>>),
    InlineSel(str_U, <<Leaf(str_b, str_String, FALSE)>>),
    InlineSel(str_V, <<SpreadSel(str_H), Leaf(str_a, str_String, TRUE)>>) }

RECURSIVE SeqsOfLen(_, _)
SeqsOfLen(S, n) ==
    IF n = 0 THEN {<<>>}
    ELSE {Append(q, x) : q \in SeqsOfLen(S, n - 1), x \in S}

TopSets == UNION {SeqsOfLen(TopPool, n) : n \in 1..MaxSel}

Operation(name, sels) == [Name |-> name, SelectionSet |-> sels]

\* operations that may follow the first one
ExtraOps == {
    Operation(str_op, <<FieldSel(str_u, NamedRef(str_U, TRUE), <<Leaf(str_b, str_String, TRUE)>>)>>),
    Operation(str_F, <<Leaf(str_a, str_String, TRUE)>>),
    Operation(str_Aa, <<Leaf(str_b, str_String, TRUE)>>) }

Configs == {[ExportQueryType |-> e, Omitempty |-> FALSE, Omitzero |-> FALSE] : e \in BOOLEAN}

Documents ==
    {[ops |-> <<Operation(str_Op, s)>> \o extra, frags |-> FragRegistry, cfg |-> c] :
        s \in TopSets, extra \in {<<>>} \cup {<<o>> : o \in ExtraOps}, c \in Configs}

InitSynth ==
    /\ pc = "create"
    /\ input \in Documents
    /\ g = NewGoTypeGenerator
    /\ opIdx = 1
    /\ scopes = {}
    /\ goTypes = <<>>
    /\ wrapped = <<>>
    /\ skipUnmarshal = {}
    /\ typeInfos = <<>>
    /\ run = <<>>

\* a call under newFields panicked: one of the field records built stands for
\* a panic
Panicked(log) == \E sc \in log : \E i \in 1..Len(sc.fields) : IsPanic(sc.fields[i].Type)

\* CreateGoTypes: one iteration of the loop over the operations; a panic ends
\* the program
CreateGoTypesLoop ==
    /\ pc = "create"
    /\ opIdx <= Len(input.ops)
    /\ LET Step(r) ==
               IF Panicked(r.log)
               THEN /\ pc' = "panicked"
                    /\ UNCHANGED <<g, scopes, opIdx>>
               ELSE /\ g' = r.g
                    /\ scopes' = scopes \cup r.log
                    /\ opIdx' = opIdx + 1
                    /\ pc' = pc
       IN  Step(CreateGoTypesOp(g, input, input.ops[opIdx]))
    /\ UNCHANGED <<input, goTypes, wrapped, skipUnmarshal, typeInfos, run>>

\* CreateGoTypes: return g.goTypes()
CreateGoTypesReturn ==
    /\ pc = "create"
    /\ opIdx > Len(input.ops)
    /\ goTypes' \in goTypesOf(g.types)
    /\ pc' = "created"
    /\ UNCHANGED <<input, g, opIdx, scopes, wrapped, skipUnmarshal, typeInfos, run>>

\* NewCodeGenerator(goTypes)
NewCodeGenerator ==
    /\ pc = "created"
    /\ skipUnmarshal' = findEmbeddedTypes(goTypes)
    /\ pc' = "generate"
    /\ UNCHANGED <<input, g, opIdx, scopes, goTypes, wrapped, typeInfos, run>>

\* the template's loop over goTypes: Generate(t) for the next type
GenerateType ==
    /\ pc = "generate"
    /\ Len(typeInfos) < Len(goTypes)
    /\ typeInfos' = Append(typeInfos, Generate(skipUnmarshal, goTypes[Len(typeInfos) + 1]))
    /\ pc' = IF Len(typeInfos) + 1 = Len(goTypes) THEN "generated" ELSE "generate"
    /\ UNCHANGED <<input, g, opIdx, scopes, goTypes, wrapped, skipUnmarshal, run>>

NextSynth == CreateGoTypesLoop \/ CreateGoTypesReturn \/ NewCodeGenerator \/ GenerateType

SpecSynth == InitSynth /\ [][NextSynth]_vars

\* the field records of kind k that the synthesizer has produced
RecordsOfKind(k) ==
    UNION {{sc.fields[i] : i \in {j \in 1..Len(sc.fields) : sc.fields[j].TypeKind = k}} :
              sc \in scopes}

\* C5 (as claimed): every field record produced for an inline fragment has a
\* pointer type whose element is the struct of the fragment's selection set,
\* and FieldAnalyzer.IsInlineFragment classifies its struct field as an
\* inline-fragment field.
C5_InlineFragmentIsPointer ==
    \A f \in RecordsOfKind("InlineFragment") :
        /\ f.Type.kind = "Pointer"
        /\ f.Type.elem[1].kind = "Struct"
        /\ IsInlineFragment(goVar(f))

\* C8: in every scope whose struct has been built, each name that occurs among
\* the sibling records occurs exactly once in the struct's field records, and
\* the struct has one field per distinct name.
C8_OneRecordPerName ==
    \A sc \in scopes :
        LET u == uniqueByName(sc.fields)
        IN  /\ \A i \in 1..Len(sc.fields) :
                   Cardinality({j \in 1..Len(u) : u[j].Name = sc.fields[i].Name}) = 1
            /\ Len(goStructType(sc.fields).fields)
                   = Cardinality({sc.fields[i].Name : i \in 1..Len(sc.fields)})

\* C8 witness: the struct of a scope with two sibling selections of one name
\* has been built
C8_Witness ==
    \E sc \in scopes :
        /\ Len(sc.fields) = 2
        /\ sc.fields[1].Name = sc.fields[2].Name
        /\ Len(goStructType(sc.fields).fields) = 1

\* C6 (as claimed): whatever order the maps are iterated in, CreateGoTypes
\* returns one and the same sequence, and every struct has one field order.
C6_Deterministic ==
    pc = "created" =>
        /\ goTypesOf(g.types) = {goTypes}
        /\ \A sc \in scopes :
               \A i, j \in 1..Len(uniqueByName(sc.fields)) :
                   i < j => Compare(uniqueByName(sc.fields)[i].Name,
                                    uniqueByName(sc.fields)[j].Name) < 0

\* C7 (as claimed): two distinct (parent scope, alias) pairs never get the
\* same type name, and the name of such a pair is the name of no operation
\* type and of no fragment type.
C7_NamesUnique ==
    \A s1 \in scopes : \A s2 \in scopes :
        s1.kind = "Object" =>
            /\ (s2.kind = "Object" /\ <<s1.parent, s1.alias>> # <<s2.parent, s2.alias>>)
                   => s1.name # s2.name
            /\ s2.kind \in {"Operation", "FragmentSpread"} => s1.name # s2.name

(***************************************************************************)
(* Scenario 3: the generated UnmarshalJSON of a document's types, run on   *)
(* JSON objects                                                            *)
(***************************************************************************)
MaxDecodeSel == 2

str_s == <<"s">>
str_blank == <<"_">>

\* the selections an operation's selection set is drawn from
DecodePool == {
    Leaf(str_a, str_String, TRUE),
    Leaf(str_b, str_String, FALSE),
    Leaf(str_blank, str_String, TRUE),
    FieldSel(str_u, NamedRef(str_U, FALSE), <<Leaf(str_b, str_String, FALSE)>>),
    SpreadSel(str_F),
    SpreadSel(str_G),
    SpreadSel(str_H),
    InlineSel(str_V, <<SpreadSel(str_H), Leaf(str_a, str_String, TRUE)>>) }

DecodeDocuments ==
    {[ops |-> <<Operation(str_Op, sels)>>, frags |-> FragRegistry,
      cfg |-> [ExportQueryType |-> FALSE, Omitempty |-> o, Omitzero |-> FALSE]] :
        sels \in UNION {SeqsOfLen(DecodePool, n) : n \in 1..MaxDecodeSel}, o \in BOOLEAN}

\* JSON objects: each key is absent or has one of a few values
Absent == [k |-> "absent", s |-> <<>>, o |-> <<>>]

JObject(keys, vals) ==
    [k \in {keys[i] : i \in {n \in 1..Len(keys) : vals[n].k # "absent"}} |->
        vals[CHOOSE i \in 1..Len(keys) : keys[i] = k]]

JSONObjects ==
    {JObject(<<str_a, str_b, str_typenameKey, str_u, str_blank>>, <<va, vb, vt, vu, JStr(str_s)>>) :
        va \in {Absent, JStr(str_s), JStr(<<>>), JNum},
        vb \in {JNull, JStr(str_s)},
        vt \in {Absent, JStr(str_V), JNum},
        vu \in {Absent, JNull, JObj(JObject(<<str_b>>, <<JStr(str_s)>>))}}
    \cup {JObject(<<>>, <<>>)}

InitDecode ==
    /\ pc = "create"
    /\ input \in DecodeDocuments
    /\ g = NewGoTypeGenerator
    /\ opIdx = 1
    /\ scopes = {}
    /\ goTypes = <<>>
    /\ wrapped = <<>>
    /\ skipUnmarshal = {}
    /\ typeInfos = <<>>
    /\ run = <<>>

\* json.Unmarshal(J, &x) by the caller, x a zero value of a generated type
\* that has an UnmarshalJSON
Decode ==
    /\ pc = "generated"
    /\ Compiles(typeInfos)
    /\ \E i \in 1..Len(typeInfos), J \in JSONObjects :
           /\ typeInfos[i].statements # <<>>
           /\ run' = <<[type |-> typeInfos[i].typeInfo.Named[1],
                        json |-> J,
                        st   |-> UnmarshalJSON(typeInfos, typeInfos[i].typeInfo.Named[1], JObj(J),
                                               Zero(typeInfos, typeInfos[i].typeInfo.Named[1]))]>>
    /\ pc' = "decoded"
    /\ UNCHANGED <<input, g, opIdx, scopes, goTypes, wrapped, skipUnmarshal, typeInfos>>

NextDecode == NextSynth \/ Decode

SpecDecode == InitDecode /\ [][NextDecode]_vars

\* the names of the named struct types that are the type of an anonymous
\* (fragment-spread) field of the struct st or of an anonymous struct nested
\* in it
RECURSIVE EmbeddedNamesIn(_)
EmbeddedNamesIn(st) ==
    UNION {
        IF st.fields[k].embedded /\ unwrapToNamedStruct(st.fields[k].type) # <<>>
        THEN {unwrapToNamedStruct(st.fields[k].type)[1].name}
        ELSE IF unwrapToNamedStruct(st.fields[k].type) = <<>>
                /\ unwrapToStruct(st.fields[k].type) # <<>>
        THEN EmbeddedNamesIn(unwrapToStruct(st.fields[k].type)[1])
        ELSE {}
        : k \in 1..Len(st.fields)}

EmbeddedNames ==
    UNION {IF unwrapToNamedStruct(goTypes[i]) = <<>> THEN {}
           ELSE EmbeddedNamesIn(unwrapToNamedStruct(goTypes[i])[1].elem[1]) : i \in 1..Len(goTypes)}

\* C10 (as claimed): a named type that is embedded as a fragment spread
\* anywhere in the catalog, in a named struct or in the anonymous struct of an
\* inline fragment, has no UnmarshalJSON of its own generated.
C10_EmbeddedHaveNoDecoder ==
    pc = "generated" =>
        \A i \in 1..Len(typeInfos) :
            typeInfos[i].statements # <<>> => typeInfos[i].typeInfo.TypeName \notin EmbeddedNames

(***************************************************************************)
(* Scenario 4: CodeGenerator over a catalog of Go types handed to          *)
(* NewCodeGenerator directly, with inline-fragment fields of the shape     *)
(* FieldAnalyzer.IsInlineFragment recognises (User *UserFragment `json:"-"`)*)
(***************************************************************************)
MaxPlanFields == 2

str_A == <<"A">>
str_B == <<"B">>

\* type F struct { A string `json:"a"` }
PlanF == NewNamed(1, str_F, NewStruct(<<NewVar(str_A, Basic(str_string), FALSE, JsonTag(str_a))>>))
\* type U struct { B *string `json:"b"` }
PlanU == NewNamed(2, str_U,
                  NewStruct(<<NewVar(str_B, NewPointer(Basic(str_string)), FALSE, JsonTag(str_b))>>))

\* the fields of type Op
PlanFields == {
    NewVar(str_A, Basic(str_string), FALSE, JsonTag(str_a)),
    NewVar(str_B, NewPointer(Basic(str_string)), FALSE, JsonTag(str_b)),
    NewVar(str_F, PlanF, TRUE, JsonTag(str_dash)),
    NewVar(str_U, NewPointer(PlanU), FALSE, JsonTag(str_dash)),
    NewVar(str_V, NewPointer(NewStruct(<<NewVar(str_A, Basic(str_string), FALSE, JsonTag(str_a))>>)),
           FALSE, JsonTag(str_dash)) }

PlanCatalogs ==
    {<<PlanF, NewNamed(3, str_Op, NewStruct(fs)), PlanU>> :
        fs \in UNION {SeqsOfLen(PlanFields, n) : n \in 1..MaxPlanFields}}

InitPlan ==
    /\ pc = "created"
    /\ input = [ops |-> <<>>, frags |-> EmptyMap, cfg |-> DefaultCfg]
    /\ g = NewGoTypeGenerator
    /\ opIdx = 1
    /\ scopes = {}
    /\ goTypes \in PlanCatalogs
    /\ wrapped = <<>>
    /\ skipUnmarshal = {}
    /\ typeInfos = <<>>
    /\ run = <<>>

NextPlan == NewCodeGenerator \/ GenerateType \/ Decode

SpecPlan == InitPlan /\ [][NextPlan]_vars

(***************************************************************************)
(* Decoding contracts                                                      *)
(***************************************************************************)
\* the fields of the type the decoder ran on
FieldsOfRun == StructOf(typeInfos, run[1].type).fields

\* the fields of an inline fragment: their type is an unnamed struct, or a
\* pointer to a struct, and their name is the type condition
InlineFragmentFields ==
    {i \in 1..Len(FieldsOfRun) :
        /\ ~FieldsOfRun[i].embedded
        /\ parseJSONTag(FieldsOfRun[i].tag) = str_dash
        /\ unwrapToStruct(FieldsOfRun[i].type) # <<>>}

\* the fields of a fragment spread
FragmentSpreadFields == {i \in 1..Len(FieldsOfRun) : FieldsOfRun[i].embedded}

TypenameIs(J, C) == str_typenameKey \in DOMAIN J /\ J[str_typenameKey] = JStr(C)

\* C1: after the decoder of a synthesized type T has decoded a JSON object J
\* into a zero T, each inline-fragment field of T is non-zero exactly when
\* J["__typename"] is the field's type condition.
C1_InlineFragmentSelected ==
    (pc = "decoded" /\ ~run[1].st.err) =>
        \A i \in InlineFragmentFields :
            (run[1].st.t[i] # Zero(typeInfos, FieldsOfRun[i].type))
                <=> TypenameIs(run[1].json, FieldsOfRun[i].name)

\* the decoder UnmarshalBuilder plans for S, run on J into a zero S
Standalone(S, J) ==
    ExecFrom(typeInfos, S, JObj(J), StartState(Zero(typeInfos, S)), Generate({}, S).statements, 1)

\* C2: after the decoder of T has decoded J, each fragment-spread field of T
\* holds the value that decoding J into a standalone value of the field's
\* type gives.
C2_SpreadTransparent ==
    (pc = "decoded" /\ ~run[1].st.err) =>
        \A i \in FragmentSpreadFields :
            run[1].st.t[i] = Standalone(FieldsOfRun[i].type, run[1].json).t

\* C3: in a run of an emitted decoder, a json.Unmarshal call that fails is
\* the last call of the run, and the decoder returns the error.
C3_FirstErrorReturned ==
    pc = "decoded" =>
        \A k \in 1..Len(run[1].st.trace) :
            run[1].st.trace[k].err => (k = Len(run[1].st.trace) /\ run[1].st.err)

(***************************************************************************)
(* Round trip through the canonical encoder (json.Marshal of               *)
(* encoding/json/v2; the generated types have no MarshalJSON)              *)
(***************************************************************************)
JArr == [k |-> "arr", s |-> <<>>, o |-> <<>>]

\* the json tag of field f carries option opt (",omitempty", ",omitzero")
HasOption(f, opt) ==
    \E i \in 1..Len(StructTagGetJson(f.tag)) :
        /\ i + Len(opt) - 1 <= Len(StructTagGetJson(f.tag))
        /\ SubSeq(StructTagGetJson(f.tag), i, i + Len(opt) - 1) = opt

\* the fields of a struct that have a wire key
WireFields(st) ==
    {i \in 1..Len(st.fields) :
        parseJSONTag(st.fields[i].tag) # <<>> /\ parseJSONTag(st.fields[i].tag) # str_dash}

\* a JSON value the encoder treats as empty
IsEmptyJSON(j) ==
    \/ j.k \in {"null", "arr"}
    \/ j.k = "str" /\ j.s = <<>>
    \/ j.k = "obj" /\ DOMAIN j.o = {}

\* json.Marshal(v), v of type t
RECURSIVE Marshal(_, _, _)
Marshal(prog, t, v) ==
    IF t.kind = "Pointer" THEN (IF v = <<>> THEN JNull ELSE Marshal(prog, t.elem[1], v[1]))
    ELSE IF t.kind = "Basic" THEN (IF t.name = str_int THEN JNum ELSE JStr(v))
    ELSE IF t.kind = "Slice" THEN JArr
    ELSE LET st == StructOf(prog, t)
             Emitted(i) ==
                 /\ Exported(st.fields[i])
                 /\ ~(HasOption(st.fields[i], str_omitzero)
                         /\ v[i] = Zero(prog, st.fields[i].type))
                 /\ ~(HasOption(st.fields[i], str_omitempty)
                         /\ IsEmptyJSON(Marshal(prog, st.fields[i].type, v[i])))
             At(key) == CHOOSE i \in WireFields(st) : parseJSONTag(st.fields[i].tag) = key
         IN  JObj([key \in {parseJSONTag(st.fields[i].tag) : i \in {n \in WireFields(st) : Emitted(n)}}
                      |-> Marshal(prog, st.fields[At(key)].type, v[At(key)])])

\* J matches the shape of t: every wire key of t, and of the fragments t
\* embeds, is present with a value of the field's type
RECURSIVE Matches(_, _, _)
Matches(prog, t, j) ==
    IF t.kind = "Pointer" THEN j.k = "null" \/ Matches(prog, t.elem[1], j)
    ELSE IF t.kind = "Basic" THEN j.k = (IF t.name = str_int THEN "num" ELSE "str")
    ELSE IF t.kind = "Slice" THEN j.k = "arr"
    ELSE /\ j.k = "obj"
         /\ \A i \in WireFields(StructOf(prog, t)) :
                /\ parseJSONTag(StructOf(prog, t).fields[i].tag) \in DOMAIN j.o
                /\ Matches(prog, StructOf(prog, t).fields[i].type,
                           j.o[parseJSONTag(StructOf(prog, t).fields[i].tag)])
         /\ \A i \in 1..Len(StructOf(prog, t).fields) :
                StructOf(prog, t).fields[i].embedded
                    => Matches(prog, StructOf(prog, t).fields[i].type, j)

\* the encoded value e equals j on every key that appears in t
RECURSIVE EqualOnKeys(_, _, _, _)
EqualOnKeys(prog, t, e, j) ==
    IF t.kind = "Pointer"
    THEN (IF j.k = "null" THEN e.k = "null" ELSE EqualOnKeys(prog, t.elem[1], e, j))
    ELSE IF t.kind \in {"Basic", "Slice"} THEN e = j
    ELSE /\ e.k = "obj"
         /\ j.k = "obj"
         /\ \A i \in WireFields(StructOf(prog, t)) :
                /\ parseJSONTag(StructOf(prog, t).fields[i].tag) \in DOMAIN e.o
                /\ parseJSONTag(StructOf(prog, t).fields[i].tag) \in DOMAIN j.o
                /\ EqualOnKeys(prog, StructOf(prog, t).fields[i].type,
                               e.o[parseJSONTag(StructOf(prog, t).fields[i].tag)],
                               j.o[parseJSONTag(StructOf(prog, t).fields[i].tag)])

\* the encoded value e equals j on every key of an exported field of t that
\* the encoder did not leave out under an omitempty or omitzero tag
RECURSIVE EqualOnEmittedKeys(_, _, _, _)
EqualOnEmittedKeys(prog, t, e, j) ==
    IF t.kind = "Pointer"
    THEN (IF j.k = "null" THEN e.k = "null" ELSE EqualOnEmittedKeys(prog, t.elem[1], e, j))
    ELSE IF t.kind \in {"Basic", "Slice"} THEN e = j
    ELSE /\ e.k = "obj"
         /\ j.k = "obj"
         /\ \A i \in {n \in WireFields(StructOf(prog, t)) : Exported(StructOf(prog, t).fields[n])} :
                IF parseJSONTag(StructOf(prog, t).fields[i].tag) \in DOMAIN e.o
                THEN /\ parseJSONTag(StructOf(prog, t).fields[i].tag) \in DOMAIN j.o
                     /\ EqualOnEmittedKeys(prog, StructOf(prog, t).fields[i].type,
                                           e.o[parseJSONTag(StructOf(prog, t).fields[i].tag)],
                                           j.o[parseJSONTag(StructOf(prog, t).fields[i].tag)])
                ELSE \/ HasOption(StructOf(prog, t).fields[i], str_omitempty)
                     \/ HasOption(StructOf(prog, t).fields[i], str_omitzero)

\* the value the decoder left, encoded again
Reencoded == Marshal(typeInfos, run[1].type, run[1].st.t)

\* the decoder ran on a JSON object that matches the shape of its type
DecodedMatching == pc = "decoded" /\ Matches(typeInfos, run[1].type, JObj(run[1].json))

RegularFields == {i \in WireFields(StructOf(typeInfos, run[1].type)) : Exported(FieldsOfRun[i])}

WireTag(i) == parseJSONTag(FieldsOfRun[i].tag)

\* C11: after a decoder has decoded J into a zero T, a regular field whose
\* wire tag is not a key of J is zero, and a regular field whose wire tag is
\* a key of J holds what decoding J[wireTag] into the field's type gives.
C11_RegularFieldsDecoded ==
    (pc = "decoded" /\ ~run[1].st.err) =>
        \A i \in RegularFields :
            run[1].st.t[i] =
                IF WireTag(i) \in DOMAIN run[1].json
                THEN Unmarshal(typeInfos, FieldsOfRun[i].type, run[1].json[WireTag(i)],
                               Zero(typeInfos, FieldsOfRun[i].type)).v
                ELSE Zero(typeInfos, FieldsOfRun[i].type)

\* a decode that filled one regular field from its key and left another one
\* zero for want of its key
C11_Witness ==
    /\ pc = "decoded"
    /\ ~run[1].st.err
    /\ \E i \in RegularFields :
           /\ WireTag(i) \in DOMAIN run[1].json
           /\ run[1].st.t[i] # Zero(typeInfos, FieldsOfRun[i].type)
    /\ \E i \in RegularFields : WireTag(i) \notin DOMAIN run[1].json

\* C12: the decoder of a synthesized type, run on the empty object {},
\* returns no error and leaves every field of the value at its zero value.
C12_EmptyObjectGivesZero ==
    (pc = "decoded" /\ DOMAIN run[1].json = {}) =>
        /\ ~run[1].st.err
        /\ run[1].st.t = Zero(typeInfos, run[1].type)

\* {} was decoded into a type that has a regular field, a fragment spread
\* with a nested spread, and the statements of both ran
C12_Witness ==
    /\ pc = "decoded"
    /\ DOMAIN run[1].json = {}
    /\ RegularFields # {}
    /\ \E i \in FragmentSpreadFields :
           \E k \in 1..Len(StructOf(typeInfos, FieldsOfRun[i].type).fields) :
               StructOf(typeInfos, FieldsOfRun[i].type).fields[k].embedded
    /\ Len(run[1].st.trace) >= 3

\* the json.Unmarshal calls of the run into raw and into fields of the value
\* all succeeded
FieldCallsSucceeded ==
    \A k \in 1..Len(run[1].st.trace) :
        IsPrefix(str_typeName, run[1].st.trace[k].call.dst) \/ ~run[1].st.trace[k].err

\* C13: when J["__typename"] is none of the type conditions of the
\* inline-fragment fields of T, the decoder returns no error on account of
\* it and every inline-fragment field of T is left zero.
C13_UnmatchedTypenameLeavesZero ==
    (/\ pc = "decoded"
     /\ FieldCallsSucceeded
     /\ \A i \in InlineFragmentFields : ~TypenameIs(run[1].json, FieldsOfRun[i].name)) =>
        /\ ~run[1].st.err
        /\ \A i \in InlineFragmentFields :
               run[1].st.t[i] = Zero(typeInfos, FieldsOfRun[i].type)

\* a type with an inline-fragment field was decoded from an object whose
\* __typename is a string that is none of its type conditions
C13_Witness ==
    /\ pc = "decoded"
    /\ InlineFragmentFields # {}
    /\ \A i \in InlineFragmentFields : FieldsOfRun[i].type.kind = "Pointer"
    /\ TypenameIs(run[1].json, str_V)
    /\ \A i \in InlineFragmentFields : FieldsOfRun[i].name # str_V
    /\ ~run[1].st.err

(***************************************************************************)
(* Scenario 5: CreateGoTypes over documents whose fragment names include   *)
(* one that fieldTypeName also produces                                    *)
(***************************************************************************)
MaxShareSel == 2

str_op_U == <<"o","p","_","U">>

\* fragment op_U on U { a }, beside the fragments of FragRegistry
ShareRegistry ==
    [n \in {str_F, str_G, str_H, str_op_U} |->
        IF n = str_op_U THEN <<Leaf(str_a, str_String, TRUE)>> ELSE FragRegistry[n]]

SharePool == {
    Leaf(str_a, str_String, TRUE),
    FieldSel(str_u, NamedRef(str_U, TRUE), <<Leaf(str_b, str_String, FALSE)>>),
    FieldSel(str_v, NamedRef(str_V, TRUE), <<SpreadSel(str_op_U)>>),
    SpreadSel(str_op_U),
    SpreadSel(str_F),
    SpreadSel(str_G) }

ShareDocuments ==
    {[ops |-> <<Operation(str_Op, sels)>>, frags |-> ShareRegistry,
      cfg |-> [ExportQueryType |-> e, Omitempty |-> FALSE, Omitzero |-> FALSE]] :
        sels \in UNION {SeqsOfLen(SharePool, n) : n \in 1..MaxShareSel}, e \in BOOLEAN}

InitShare ==
    /\ pc = "create"
    /\ input \in ShareDocuments
    /\ g = NewGoTypeGenerator
    /\ opIdx = 1
    /\ scopes = {}
    /\ goTypes = <<>>
    /\ wrapped = <<>>
    /\ skipUnmarshal = {}
    /\ typeInfos = <<>>
    /\ run = <<>>

NextShare == CreateGoTypesLoop \/ CreateGoTypesReturn

SpecShare == InitShare /\ [][NextShare]_vars

\* a Go type without the identity of its type names
RECURSIVE Shape(_)
Shape(t) ==
    [kind |-> t.kind, name |-> t.name,
     elem |-> [i \in 1..Len(t.elem) |-> Shape(t.elem[i])],
     fields |-> [i \in 1..Len(t.fields) |->
                    [name |-> t.fields[i].name, embedded |-> t.fields[i].embedded,
                     tag |-> t.fields[i].tag, type |-> Shape(t.fields[i].type)]]]

\* C14: the type of every fragment-spread record is the named type called
\* after the fragment, every record that spreads the same fragment has the
\* same shape, and the catalog holds that shape under the name.
C14_SpreadSharesOneEntry ==
    pc = "created" =>
        \A f \in RecordsOfKind("FragmentSpread") :
            /\ f.Type.kind = "Named"
            /\ f.Type.name = f.Name
            /\ \A f2 \in RecordsOfKind("FragmentSpread") :
                   f2.Name = f.Name => Shape(f2.Type) = Shape(f.Type)
            /\ TypeString(f.Type) \in DOMAIN g.types
            /\ Shape(g.types[TypeString(f.Type)]) = Shape(f.Type)

(***************************************************************************)
(* Order of the returned catalog                                           *)
(***************************************************************************)
\* a is b or comes before b in byte-wise lexicographic order
LexLeq(a, b) ==
    \E k \in 0..Len(a) :
        /\ k <= Len(b)
        /\ \A i \in 1..k : a[i] = b[i]
        /\ \/ k = Len(a)
           \/ k < Len(b) /\ Code(a[k + 1]) < Code(b[k + 1])

Reverse(s) == [i \in 1..Len(s) |-> s[Len(s) + 1 - i]]

\* the document with its operations, and the selections of each, in the
\* opposite order
ReversedDocument(doc) ==
    [doc EXCEPT !.ops = Reverse([i \in 1..Len(doc.ops) |->
                            Operation(doc.ops[i].Name, Reverse(doc.ops[i].SelectionSet))])]

\* the catalog after the loop of CreateGoTypes over the operations from i on
RECURSIVE TypesAfter(_, _, _)
TypesAfter(gen, doc, i) ==
    IF i > Len(doc.ops) THEN gen.types
    ELSE TypesAfter(CreateGoTypesOp(gen, doc, doc.ops[i]).g, doc, i + 1)

CanonicalNames(ts) == [i \in 1..Len(ts) |-> CanonicalName(ts[i])]

\* C15: the sequence CreateGoTypes returns is in lexicographic order of the
\* canonical names (String() without a leading "*"), and the sequence of
\* names is the same when the operations and their selections are processed
\* in the opposite order.
C15_OrderedByCanonicalName ==
    pc = "created" =>
        /\ \A i, j \in 1..Len(goTypes) :
               i < j => LexLeq(CanonicalName(goTypes[i]), CanonicalName(goTypes[j]))
        /\ \A ts \in goTypesOf(TypesAfter(NewGoTypeGenerator, ReversedDocument(input), 1)) :
               CanonicalNames(ts) = CanonicalNames(goTypes)

\* a catalog of two operations was returned in which a pointer type follows
\* a type whose String() is greater
C15_Witness ==
    /\ pc = "created"
    /\ Len(input.ops) = 2
    /\ \E i, j \in 1..Len(goTypes) :
           /\ i < j
           /\ goTypes[j].kind = "Pointer"
           /\ Compare(TypeString(goTypes[i]), TypeString(goTypes[j])) > 0

(***************************************************************************)
(* Scenario 6: CreateGoTypes over documents that hold a selection of       *)
(* unknown kind, a type reference without a named and without an element   *)
(* form, or a leaf type the binder does not know                           *)
(***************************************************************************)
MaxFatalSel == 2

str_Float == <<"F","l","o","a","t">>

\* a *ast.Type with NamedType == "" and Elem == nil
BadRef == [NamedType |-> <<>>, Elem |-> <<>>, NonNull |-> TRUE]

FatalPool == {
    Leaf(str_a, str_String, TRUE),
    FieldSel(str_u, NamedRef(str_U, TRUE), <<Leaf(str_b, str_String, FALSE)>>),
    SpreadSel(str_H),
    Leaf(str_a, str_Float, TRUE),
    FieldSel(str_a, BadRef, <<>>),
    FieldSel(str_a, ListRef(BadRef, TRUE), <<>>),
    FieldSel(str_u, BadRef, <<Leaf(str_b, str_String, FALSE)>>),
    FieldSel(str_u, ListRef(BadRef, FALSE), <<Leaf(str_b, str_String, FALSE)>>),
    FieldSel(str_u, NamedRef(str_U, TRUE), <<Leaf(str_b, str_Float, FALSE)>>),
    [kind |-> "Unknown", Name |-> str_x, Type |-> <<>>, SelectionSet |-> <<>>] }

FatalDocuments ==
    {[ops |-> <<Operation(str_Op, sels)>>, frags |-> FragRegistry, cfg |-> DefaultCfg] :
        sels \in UNION {SeqsOfLen(FatalPool, n) : n \in 1..MaxFatalSel}}

InitFatal ==
    /\ pc = "create"
    /\ input \in FatalDocuments
    /\ g = NewGoTypeGenerator
    /\ opIdx = 1
    /\ scopes = {}
    /\ goTypes = <<>>
    /\ wrapped = <<>>
    /\ skipUnmarshal = {}
    /\ typeInfos = <<>>
    /\ run = <<>>

NextFatal == CreateGoTypesLoop \/ CreateGoTypesReturn

SpecFatal == InitFatal /\ [][NextFatal]_vars

\* the reference has, at some level, neither a named nor an element form
RECURSIVE Malformed(_)
Malformed(ref) ==
    ref.NamedType = <<>> /\ (ref.Elem = <<>> \/ Malformed(ref.Elem[1]))

\* the named type at the bottom of a well-formed reference
RECURSIVE BaseName(_)
BaseName(ref) == IF ref.NamedType # <<>> THEN ref.NamedType ELSE BaseName(ref.Elem[1])

\* the selection, or one below it, is a programming error: its kind is
\* unknown, its reference is malformed, or it is a leaf of a type the binder
\* does not know
RECURSIVE ErrorIn(_, _)
ErrorIn(doc, sel) ==
    IF sel.kind = "Field"
    THEN \/ Malformed(sel.Type[1])
         \/ sel.SelectionSet = <<>> /\ BaseName(sel.Type[1]) \notin KnownModels
         \/ \E i \in 1..Len(sel.SelectionSet) : ErrorIn(doc, sel.SelectionSet[i])
    ELSE IF sel.kind = "FragmentSpread"
    THEN \E i \in 1..Len(doc.frags[sel.Name]) : ErrorIn(doc, doc.frags[sel.Name][i])
    ELSE IF sel.kind = "InlineFragment"
    THEN \E i \in 1..Len(sel.SelectionSet) : ErrorIn(doc, sel.SelectionSet[i])
    ELSE TRUE

ErrorInDocument(doc) ==
    \E o \in 1..Len(doc.ops) :
        \E i \in 1..Len(doc.ops[o].SelectionSet) : ErrorIn(doc, doc.ops[o].SelectionSet[i])

\* C16: when the document holds a programming error, CreateGoTypes ends in a
\* panic and returns no catalog.
C16_ErrorsAreFatal ==
    ErrorInDocument(input) => (pc # "created" /\ goTypes = <<>>)

(***************************************************************************)
(* Wrapping of particular references (Scenario 1)                          *)
(***************************************************************************)
\* tags: [[String]!]!
TagsRef == ListRef(ListRef(NamedRef(str_String, FALSE), TRUE), TRUE)
\* tags: [[String]]!
TagsNullableInnerRef == ListRef(ListRef(NamedRef(str_String, FALSE), FALSE), TRUE)

PtrString == NewPointer(Basic(str_string))

\* C17 (as claimed): the leaf field tags: [[String]!]! is wrapped to a
\* sequence of (nullable sequence of (nullable String)).
C17_TagsInnerListNullable ==
    (pc = "wrapped" /\ input.leaf /\ input.ref = TagsRef)
        => wrapped[1].t = NewSlice(NewPointer(NewSlice(PtrString)))

\* C17 (amended): the leaf field tags: [[String]!]! is wrapped to a sequence
\* of (sequence of (nullable String)); the sequence of (nullable sequence of
\* (nullable String)) is the wrap of the leaf field tags: [[String]]!.
C17_TagsWrap ==
    /\ (pc = "wrapped" /\ input.leaf /\ input.ref = TagsRef)
           => wrapped[1].t = NewSlice(NewSlice(PtrString))
    /\ (pc = "wrapped" /\ input.leaf /\ input.ref = TagsNullableInnerRef)
           => wrapped[1].t = NewSlice(NewPointer(NewSlice(PtrString)))

\* C17 witness: the leaf tags: [[String]!]! has been wrapped
C17_Witness ==
    /\ pc = "wrapped"
    /\ input.leaf
    /\ input.ref = TagsRef
    /\ wrapped[1].kind = "Scalar"
    /\ wrapped[1].t.kind = "Slice"

\* the element type of the innermost slice of a Go type
RECURSIVE InnermostElem(_)
InnermostElem(t) ==
    IF t.kind = "Pointer" THEN InnermostElem(t.elem[1])
    ELSE IF t.kind = "Slice" THEN
        (IF LastSlice(GoShape(t.elem[1])) = 0 THEN t.elem[1] ELSE InnermostElem(t.elem[1]))
    ELSE t

\* C18: for an object selection whose reference is a list, of any depth up to
\* 3 and with any non-null flags, the element of the innermost slice is a
\* pointer directly to the synthesized named type.
C18_ListElementIsPointerToNamed ==
    (pc = "wrapped" /\ ~input.leaf /\ input.ref.NamedType = <<>>) =>
        /\ InnermostElem(wrapped[1].t).kind = "Pointer"
        /\ InnermostElem(wrapped[1].t).elem[1].kind = "Named"

(***************************************************************************)
(* Scenario 7: CreateGoTypes under every setting of the omitempty and      *)
(* omitzero flags                                                          *)
(***************************************************************************)
MaxTagSel == 2

TagPool == {
    Leaf(str_a, str_String, TRUE),
    Leaf(str_b, str_String, FALSE),
    FieldSel(str_x, ListRef(NamedRef(str_String, TRUE), TRUE), <<>>),
    FieldSel(str_u, NamedRef(str_U, TRUE), <<Leaf(str_b, str_String, FALSE)>>),
    FieldSel(str_v, NamedRef(str_V, FALSE), <<Leaf(str_a, str_String, TRUE)>>),
    SpreadSel(str_H),
    InlineSel(str_V, <<Leaf(str_a, str_String, TRUE)>>) }

TagConfigs == {[ExportQueryType |-> FALSE, Omitempty |-> e, Omitzero |-> z] : e, z \in BOOLEAN}

TagDocuments ==
    {[ops |-> <<Operation(str_Op, sels)>>, frags |-> FragRegistry, cfg |-> c] :
        sels \in UNION {SeqsOfLen(TagPool, n) : n \in 1..MaxTagSel}, c \in TagConfigs}

InitTags ==
    /\ pc = "create"
    /\ input \in TagDocuments
    /\ g = NewGoTypeGenerator
    /\ opIdx = 1
    /\ scopes = {}
    /\ goTypes = <<>>
    /\ wrapped = <<>>
    /\ skipUnmarshal = {}
    /\ typeInfos = <<>>
    /\ run = <<>>

NextTags == CreateGoTypesLoop \/ CreateGoTypesReturn

SpecTags == InitTags /\ [][NextTags]_vars

\* the tag text holds the option
TagHasOption(tag, opt) ==
    \E i \in 1..Len(tag) : i + Len(opt) - 1 <= Len(tag) /\ SubSeq(tag, i, i + Len(opt) - 1) = opt

\* the field records of every scope CreateGoTypes went through
AllFieldRecords == UNION {{sc.fields[i] : i \in 1..Len(sc.fields)} : sc \in scopes}

\* a record of a non-null leaf selection: buildGoType gives it a type that
\* is not a pointer
NonNullScalar(r) == r.TypeKind = "Scalar" /\ r.Type.kind # "Pointer"

\* C19: a field record's tag holds ,omitempty (,omitzero) exactly when the
\* record is of a non-null scalar selection and the flag is set; records of
\* objects, nullable fields, fragment spreads and inline fragments never do.
C19_OmitTagsOnlyOnNonNullScalars ==
    pc = "created" =>
        \A r \in AllFieldRecords :
            /\ TagHasOption(r.Tags, str_omitempty) <=> (NonNullScalar(r) /\ input.cfg.Omitempty)
            /\ TagHasOption(r.Tags, str_omitzero) <=> (NonNullScalar(r) /\ input.cfg.Omitzero)

(***************************************************************************)
(* Scenario 8: graphqljson.UnmarshalData on an input of several lexical    *)
(* items, into a target of type struct { Foo string }                      *)
(***************************************************************************)
MaxItems == 3

\* the items an input is made of: whitespace; the complete values
\* {"foo":"bar"}, {"foo":1}, "s" and null; a closing brace; a character
\* that starts no token
JSONValueItems == {"obj", "objnum", "str", "null"}
Items == {"ws", "}", "x"} \cup JSONValueItems

\* v: a pointer to a query struct, a nil pointer, or a value that is no pointer
TargetArgs == {"ptr", "nilptr", "nonptr"}

ZeroQuery == [Foo |-> ""]

\* the decoder's position after the whitespace that starts at pos
RECURSIVE ConsumeWhitespace(_, _)
ConsumeWhitespace(data, pos) ==
    IF pos <= Len(data) /\ data[pos] = "ws" THEN ConsumeWhitespace(data, pos + 1) ELSE pos

\* dec.ReadValue() on a new decoder: the first complete value and the
\* position after it, or an error (io.EOF on an empty input, a syntactic
\* error otherwise)
ReadValue(data) ==
    LET At(p) ==
            IF p <= Len(data) /\ data[p] \in JSONValueItems
            THEN [err |-> FALSE, value |-> data[p], next |-> p + 1]
            ELSE [err |-> TRUE, value |-> "", next |-> p]
    IN  At(ConsumeWhitespace(data, 1))

\* ReadToken that reports the end of the input wherever it is called
ReadTokenAlwaysEOF(data, pos) == {"EOF"}

\* dec.ReadToken() after the top-level value: the outcomes the jsontext
\* decoder can give. io.EOF when only whitespace is left; a syntactic error
\* on a closing brace or on a character that starts no token; the first token of
\* a following value, or, when that value is not separated from the
\* previous one by whitespace, possibly a syntactic error instead
ReadToken(data, pos) ==
    LET At(p) ==
            IF p > Len(data) THEN {"EOF"}
            ELSE IF data[p] \notin JSONValueItems THEN {"error"}
            ELSE IF p = pos THEN {"token", "error"}
            ELSE {"token"}
    IN  At(ConsumeWhitespace(data, pos))

\* decodeGraphQLValue(value, rv.Elem(), nil) for rv.Elem() of kind struct:
\* null zeroes the struct, {"foo":"bar"} sets Foo, a number for Foo and a
\* value that is no object are errors
decodeGraphQLValue(value, t) ==
    IF value = "null" THEN [err |-> FALSE, t |-> ZeroQuery]
    ELSE IF value = "obj" THEN [err |-> FALSE, t |-> [t EXCEPT !.Foo = "bar"]]
    ELSE [err |-> TRUE, t |-> t]

\* what UnmarshalData returns and leaves in *v, when ReadToken gives tok
UnmarshalDataResult(data, v, tok) ==
    LET AfterDecode(d) ==
            IF d.err THEN [err |-> TRUE, at |-> "decodeGraphQLValue", t |-> d.t]
            ELSE IF tok = "token" THEN [err |-> TRUE, at |-> "invalid token", t |-> d.t]
            ELSE IF tok # "EOF" THEN [err |-> TRUE, at |-> "ReadToken", t |-> d.t]
            ELSE [err |-> FALSE, at |-> "", t |-> d.t]
        AfterRead(r) ==
            IF r.err THEN [err |-> TRUE, at |-> "ReadValue", t |-> ZeroQuery]
            ELSE AfterDecode(decodeGraphQLValue(r.value, ZeroQuery))
    IN  IF v # "ptr" THEN [err |-> TRUE, at |-> "non-pointer", t |-> ZeroQuery]
        ELSE AfterRead(ReadValue(data))

InitUnmarshal ==
    /\ pc = "call"
    /\ input \in {[data |-> d, v |-> v] :
                     d \in UNION {SeqsOfLen(Items, n) : n \in 0..MaxItems}, v \in TargetArgs}
    /\ g = NewGoTypeGenerator
    /\ opIdx = 0
    /\ scopes = {}
    /\ goTypes = <<>>
    /\ wrapped = <<>>
    /\ skipUnmarshal = {}
    /\ typeInfos = <<>>
    /\ run = <<>>

UnmarshalData ==
    /\ pc = "call"
    /\ \E tok \in ReadToken(input.data, ReadValue(input.data).next) :
           run' = <<UnmarshalDataResult(input.data, input.v, tok)>>
    /\ pc' = "returned"
    /\ UNCHANGED <<input, g, opIdx, scopes, goTypes, wrapped, skipUnmarshal, typeInfos>>

NextUnmarshal == UnmarshalData

SpecUnmarshal == InitUnmarshal /\ [][NextUnmarshal]_vars

\* the input starts, after optional whitespace, with a complete value, and
\* some item after that value is not whitespace
TokenFollowsFirstValue(data) ==
    /\ ~ReadValue(data).err
    /\ \E i \in ReadValue(data).next..Len(data) : data[i] # "ws"

\* C20: UnmarshalData returns an error whenever a token follows the first
\* complete top-level value of the input, also when that value was decoded
\* into the target without error.
C20_TrailingTokenIsError ==
    (pc = "returned" /\ TokenFollowsFirstValue(input.data)) => run[1].err

\* C20 witness: {"foo":"bar"}{"foo":"bar"} was given, the first value was
\* decoded into the target, and an error was returned
C20_Witness ==
    /\ pc = "returned"
    /\ input.v = "ptr"
    /\ input.data = <<"obj", "obj">>
    /\ run[1].t.Foo = "bar"
    /\ run[1].err
    /\ run[1].at = "invalid token"

(***************************************************************************)
(* Scenario 9: graphqljson.decodeStruct on struct types with union         *)
(* alternatives (exported fields that are pointers to anonymous structs).  *)
(* A struct value is the sequence of its field values, a pointer is <<>>   *)
(* (nil) or <<v>>.  The types of the scenario have no embedded field, no   *)
(* inline-fragment field and no `unknown` option, so the second pass and   *)
(* the fallback of decodeStruct have nothing to do.                        *)
(***************************************************************************)
MaxKeys == 3

str_login == <<"l","o","g","i","n">>
str_Login == <<"L","o","g","i","n">>
str_Typename == <<"T","y","p","e","n","a","m","e">>
str_X == <<"X">>

\* *struct { Login string `json:"login"` }
AltType == NewPointer(NewStruct(<<NewVar(str_Login, Basic(str_string), FALSE, JsonTag(str_login))>>))

\* struct { [Typename string `json:"__typename"`]; A *struct{...} [`json:"a"`];
\*          [B *struct{...} [`json:"b"`]] }
UnionTypes ==
    {NewStruct(tn \o <<NewVar(str_A, AltType, FALSE, ta)>> \o b) :
        tn \in {<<>>, <<NewVar(str_Typename, Basic(str_string), FALSE, JsonTag(str_typenameKey))>>},
        ta \in {<<>>, JsonTag(str_a)},
        b  \in {<<>>} \cup {<<NewVar(str_B, AltType, FALSE, tb)>> : tb \in {<<>>, JsonTag(str_b)}}}

UnionKeys == {str_typenameKey, str_a, str_A, str_b, str_login}

UnionValues(key) ==
    IF key = str_typenameKey THEN {JStr(str_A), JStr(str_b), JStr(str_X), JNull, JNum}
    ELSE IF key = str_login THEN {JStr(str_s)}
    ELSE {JNull, JObj(EmptyMap), JObj([k \in {str_login} |-> JStr(str_s)])}

\* the JSON objects with at most MaxKeys keys
UnionObjects ==
    UNION {{o \in [ks -> UNION {UnionValues(k) : k \in ks}] : \A k \in ks : o[k] \in UnionValues(k)} :
              ks \in {x \in SUBSET UnionKeys : Cardinality(x) <= MaxKeys}}

\* the orders in which a range over a map of the keys S can yield them
RECURSIVE MapOrders(_)
MapOrders(S) ==
    IF S = {} THEN {<<>>}
    ELSE UNION {{<<k>> \o q : q \in MapOrders(S \ {k})} : k \in S}

\* the orders of the keys of the object o, each followed by the other keys
\* (a nested object of the scenario has at most one key)
KeyOrders(o) ==
    {q \o (CHOOSE r \in MapOrders(UnionKeys \ DOMAIN o) : TRUE) : q \in MapOrders(DOMAIN o)}

\* strings.EqualFold
EqualFold(a, b) == StrToLower(a) = StrToLower(b)

\* isJSONNull
isJSONNull(data) == data.k = "null"

\* the zero value of a type
RECURSIVE ZeroValue(_)
ZeroValue(t) ==
    IF t.kind = "Struct" THEN [i \in 1..Len(t.fields) |-> ZeroValue(t.fields[i].type)] ELSE <<>>

\* a pointer to an anonymous struct
IsUnionAlternative(f) ==
    f.type.kind = "Pointer" /\ f.type.elem[1].kind = "Struct"

\* IsUnion(t)
IsUnion(t) ==
    /\ t.kind = "Struct"
    /\ Cardinality({i \in 1..Len(t.fields) :
                       Exported(t.fields[i]) /\ ~t.fields[i].embedded
                       /\ IsUnionAlternative(t.fields[i])}) >= 2

\* buildStructInfo(t): one entry per exported or embedded field
buildStructInfo(t) ==
    LET Name(tag) == LET v == StructTagGetJson(tag)
                         c == IndexFrom(v, ",", 1)
                     IN  IF c > 0 THEN SubSeq(v, 1, c - 1) ELSE v
        Info(i) == [index     |-> i,
                    name      |-> t.fields[i].name,
                    anonymous |-> t.fields[i].embedded,
                    omit      |-> Name(t.fields[i].tag) = str_dash,
                    jsonName  |-> IF Name(t.fields[i].tag) = str_dash THEN <<>>
                                  ELSE Name(t.fields[i].tag)]
        idx == SelectSeq([i \in 1..Len(t.fields) |-> i],
                         LAMBDA i : Exported(t.fields[i]) \/ t.fields[i].embedded)
    IN  [n \in 1..Len(idx) |-> Info(idx[n])]

\* locateFieldKey(fi, fields): the first key the range over the map yields
\* that is the json name, or that equals the Go name up to case when there
\* is no json name; <<>> when there is none
locateFieldKey(fi, order) ==
    LET Hit(k) == IF fi.jsonName # <<>> THEN k = fi.jsonName ELSE EqualFold(k, fi.name)
        hits == SelectSeq(order, Hit)
    IN  IF hits = <<>> THEN <<>> ELSE <<hits[1]>>

\* matchKeyInsensitive(fields, target) over the keys the map still holds
matchKeyInsensitive(order, target) ==
    LET hits == SelectSeq(order, LAMBDA k : EqualFold(k, target))
    IN  IF hits = <<>> THEN <<>> ELSE <<hits[1]>>

\* buildUnknownValue(entries): the value itself for one entry, an object of
\* the entries otherwise
buildUnknownValue(fields, keys) ==
    IF Len(keys) = 1 THEN fields[keys[1]]
    ELSE JObj([k \in {keys[i] : i \in 1..Len(keys)} |-> fields[k]])

\* decodeGraphQLValue and decodeStruct for a target of type t holding v;
\* order is the order in which ranges over the object's map yield its keys.
\* The result is the error ("" for nil) and the value left in the target.
RECURSIVE decodeValueInto(_, _, _, _)
RECURSIVE decodeStruct(_, _, _, _, _)
decodeValueInto(data, t, v, order) ==
    IF t.kind = "Pointer" THEN
        (IF isJSONNull(data) THEN [err |-> "", v |-> <<>>]
         ELSE LET Wrap(r) == [err |-> r.err, v |-> <<r.v>>]
              IN  Wrap(decodeValueInto(data, t.elem[1],
                                       IF v = <<>> THEN ZeroValue(t.elem[1]) ELSE v[1], order)))
    ELSE IF isJSONNull(data) THEN [err |-> "", v |-> ZeroValue(t)]
    ELSE IF t.kind = "Struct" THEN decodeStruct(data, t, v, order, FALSE)
    ELSE IF data.k = "str" THEN [err |-> "", v |-> data.s]
    ELSE [err |-> "json: cannot unmarshal", v |-> v]

decodeStruct(data, t, v, order, ignoreUnknown) ==
    IF data.k # "obj" THEN [err |-> "expected JSON object", v |-> v]
    ELSE
    LET fields       == data.o
        keyOrder     == SelectSeq(order, LAMBDA k : k \in DOMAIN fields)
        info         == buildStructInfo(t)
        hasTypename  == str_typenameKey \in DOMAIN fields
        typenameBad  == hasTypename /\ fields[str_typenameKey].k \notin {"str", "null"}
        typename     == IF hasTypename /\ fields[str_typenameKey].k = "str"
                        THEN fields[str_typenameKey].s ELSE <<>>
        isUnionType  == IsUnion(t)
        IsAlt(n)     == ~info[n].anonymous /\ IsUnionAlternative(t.fields[info[n].index])
        KeyOf(n)     == IF info[n].jsonName # <<>> THEN info[n].jsonName ELSE info[n].name
        unionFields  == SelectSeq([n \in 1..Len(info) |-> n], IsAlt)
        unionFieldsPresentInData ==
            Cardinality({n \in 1..Len(info) :
                            IsAlt(n) /\ KeyOf(n) \in DOMAIN fields /\ ~isJSONNull(fields[KeyOf(n)])})
        \* first pass, from entry n on: st is [err, v, used]
        FirstStep(n, st) ==
            IF info[n].omit \/ info[n].anonymous THEN st
            ELSE IF info[n].jsonName = <<>> /\ t.fields[info[n].index].type.kind = "Struct"
                 THEN st
            ELSE LET Put(k, r) == [err  |-> r.err,
                                   v    |-> [st.v EXCEPT ![info[n].index] = r.v],
                                   used |-> st.used \cup {k}]
                     Found(key) ==
                         IF key = <<>> THEN st
                         ELSE Put(key[1],
                                  decodeValueInto(fields[key[1]], t.fields[info[n].index].type,
                                                  st.v[info[n].index], order))
                 IN  Found(locateFieldKey(info[n], keyOrder))
        RECURSIVE FirstPass(_, _)
        FirstPass(n, st) ==
            IF n > Len(info) \/ st.err # "" THEN st ELSE FirstPass(n + 1, FirstStep(n, st))
        \* the union pass, from union field m on: st is [err, v, used, matched]
        UnionStep(m, st, remaining) ==
            LET n     == unionFields[m]
                at    == info[n].index
                elemT == t.fields[at].type.elem[1]
                uinfo == buildStructInfo(elemT)
                UKey(j) == matchKeyInsensitive(remaining,
                               IF uinfo[j].jsonName # <<>> THEN uinfo[j].jsonName
                               ELSE uinfo[j].name)
                Entries(js) == [j \in 1..Len(js) |-> UKey(js[j])[1]]
                Put(ue, r) == [err     |-> r.err,
                               v       |-> [st.v EXCEPT ![at] = <<r.v>>],
                               used    |-> IF r.err = ""
                                           THEN st.used \cup {ue[j] : j \in 1..Len(ue)}
                                           ELSE st.used,
                               matched |-> TRUE]
                Matched(ue, target) ==
                    IF Len(ue) > 0
                    THEN Put(ue, decodeValueInto(buildUnknownValue(fields, ue), elemT, target, order))
                    ELSE [st EXCEPT !.v[at] = <<target>>, !.matched = TRUE]
            IN  IF EqualFold(KeyOf(n), typename) \/ EqualFold(info[n].name, typename)
                THEN Matched(Entries(SelectSeq([j \in 1..Len(uinfo) |-> j],
                                               LAMBDA j : UKey(j) # <<>>)),
                             IF st.v[at] = <<>> THEN ZeroValue(elemT) ELSE st.v[at][1])
                ELSE [st EXCEPT !.v[at] = <<>>]
        RECURSIVE UnionPass(_, _, _)
        UnionPass(m, st, remaining) ==
            IF m > Len(unionFields) \/ st.err # "" THEN st
            ELSE UnionPass(m + 1, UnionStep(m, st, remaining), remaining)
        Leftovers(st) ==
            IF st.err # "" THEN [err |-> st.err, v |-> st.v]
            ELSE IF DOMAIN fields \ st.used # {} /\ ~ignoreUnknown
            THEN [err |-> "struct field doesn't exist", v |-> st.v]
            ELSE [err |-> "", v |-> st.v]
        AfterUnion(st) ==
            IF st.err # "" THEN [err |-> st.err, v |-> st.v]
            ELSE IF ~st.matched THEN [err |-> "union type not mapped", v |-> st.v]
            ELSE Leftovers(st)
        AfterFirst(st) ==
            IF st.err # "" THEN [err |-> st.err, v |-> st.v]
            ELSE IF typename # <<>> /\ isUnionType
            THEN AfterUnion(UnionPass(1, [err |-> "", v |-> st.v, used |-> st.used, matched |-> FALSE],
                                      SelectSeq(keyOrder, LAMBDA k : k \notin st.used)))
            ELSE Leftovers(st)
    IN  IF typenameBad THEN [err |-> "decode __typename", v |-> v]
        ELSE IF isUnionType /\ unionFieldsPresentInData > 1 /\ ~hasTypename
        THEN [err |-> "__typename is required for union decoding", v |-> v]
        ELSE AfterFirst(FirstPass(1, [err |-> "", v |-> v,
                                      used |-> IF hasTypename THEN {str_typenameKey} ELSE {}]))

InitUnion ==
    /\ pc = "call"
    /\ input \in {[type |-> t, json |-> o] : t \in UnionTypes, o \in UnionObjects}
    /\ g = NewGoTypeGenerator
    /\ opIdx = 0
    /\ scopes = {}
    /\ goTypes = <<>>
    /\ wrapped = <<>>
    /\ skipUnmarshal = {}
    /\ typeInfos = <<>>
    /\ run = <<>>

\* UnmarshalData(data, &v) for a v of the type: the value read is the whole
\* input, and decodeGraphQLValue reaches decodeStruct through the pointer
DecodeUnion ==
    /\ pc = "call"
    /\ \E order \in KeyOrders(input.json) :
           run' = <<decodeValueInto(JObj(input.json), input.type, ZeroValue(input.type), order)>>
    /\ pc' = "returned"
    /\ UNCHANGED <<input, g, opIdx, scopes, goTypes, wrapped, skipUnmarshal, typeInfos>>

NextUnion == DecodeUnion

SpecUnion == InitUnion /\ [][NextUnion]_vars

\* the object has, under a key that decodeStruct takes for field i of the
\* type (the json name, or the Go name up to case when there is none), a
\* value that is not null
CarriesDataFor(t, o, i) ==
    \E k \in DOMAIN o :
        /\ locateFieldKey(buildStructInfo(t)[i], <<k>>) # <<>>
        /\ ~isJSONNull(o[k])

AlternativesWithData(t, o) ==
    {i \in 1..Len(t.fields) : IsUnionAlternative(t.fields[i]) /\ CarriesDataFor(t, o, i)}

\* C21: decoding into a union struct an object that has no __typename key
\* and carries non-null data for more than one alternative returns the
\* error that __typename is required.
C21_MissingTypenameIsError ==
    (/\ pc = "returned"
     /\ IsUnion(input.type)
     /\ str_typenameKey \notin DOMAIN input.json
     /\ Cardinality(AlternativesWithData(input.type, input.json)) > 1)
        => run[1].err = "__typename is required for union decoding"

(***************************************************************************)
(* Scenario 10: CodeGenerator over catalogs whose fragment types hold      *)
(* inline-fragment fields and further fragment spreads                     *)
(***************************************************************************)
MaxNestFields == 3

str_E == <<"E">>

\* struct { A string `json:"a"` }, the struct of an inline fragment
NestInline == NewStruct(<<NewVar(str_A, Basic(str_string), FALSE, JsonTag(str_a))>>)

\* type E struct {}
NestE == NewNamed(11, str_E, NewStruct(<<>>))
\* type H struct { B *string `json:"b"` }
NestH == NewNamed(12, str_H,
                  NewStruct(<<NewVar(str_B, NewPointer(Basic(str_string)), FALSE, JsonTag(str_b))>>))
\* type G struct { B *string `json:"b"`; V *struct{...} `json:"-"` }
NestG == NewNamed(13, str_G,
                  NewStruct(<<NewVar(str_B, NewPointer(Basic(str_string)), FALSE, JsonTag(str_b)),
                              NewVar(str_V, NewPointer(NestInline), FALSE, JsonTag(str_dash))>>))
\* type F struct { A string `json:"a"`; G `json:"-"`; U *struct{...} `json:"-"` }
NestF == NewNamed(14, str_F,
                  NewStruct(<<NewVar(str_A, Basic(str_string), FALSE, JsonTag(str_a)),
                              NewVar(str_G, NestG, TRUE, JsonTag(str_dash)),
                              NewVar(str_U, NewPointer(NestInline), FALSE, JsonTag(str_dash))>>))

\* the fields of type Op
NestFields == {
    NewVar(str_A, Basic(str_string), FALSE, JsonTag(str_a)),
    NewVar(str_E, NestE, TRUE, JsonTag(str_dash)),
    NewVar(str_F, NestF, TRUE, JsonTag(str_dash)),
    NewVar(str_G, NestG, TRUE, JsonTag(str_dash)),
    NewVar(str_H, NestH, TRUE, JsonTag(str_dash)),
    NewVar(str_V, NewPointer(NestInline), FALSE, JsonTag(str_dash)) }

\* the catalogs: the fragment types and Op with distinct fields of the pool
NestCatalogs ==
    {<<NestE, NestF, NestG, NestH, NewNamed(15, str_Op, NewStruct(fs))>> :
        fs \in {q \in UNION {SeqsOfLen(NestFields, n) : n \in 1..MaxNestFields} :
                   \A i, k \in 1..Len(q) : i # k => q[i] # q[k]}}

InitNest ==
    /\ pc = "created"
    /\ input = [ops |-> <<>>, frags |-> EmptyMap, cfg |-> DefaultCfg]
    /\ g = NewGoTypeGenerator
    /\ opIdx = 1
    /\ scopes = {}
    /\ goTypes \in NestCatalogs
    /\ wrapped = <<>>
    /\ skipUnmarshal = {}
    /\ typeInfos = <<>>
    /\ run = <<>>

NextNest == NewCodeGenerator \/ GenerateType

SpecNest == InitNest /\ [][NextNest]_vars

\* the emitted plans
Plans == {typeInfos[i].statements : i \in {k \in 1..Len(typeInfos) : typeInfos[k].statements # <<>>}}

\* the kinds of step of a plan
IsRegularStep(st) == st.op = "IfStatement" /\ st.Condition.bind = "value"
IsSpreadStep(st) ==
    st.op = "ErrorCheckStatement" /\ st.ErrorExpr.src = "data" /\ st.ErrorExpr.dst # str_raw
IsDispatchStep(st) == st.op = "SwitchStatement"

StartsAndEnds(plan) ==
    /\ plan[1] = VariableDecl(str_raw, "map[string]jsontext.Value")
    /\ plan[Len(plan)] = ReturnStatement("nil")

\* C22 (as claimed): in every plan every regular-field step precedes every
\* fragment-spread unmarshal step, every fragment-spread unmarshal step
\* precedes every __typename dispatch step, and the plan starts with the
\* declaration of raw and ends with return nil.
C22_OrderedAcrossPlan ==
    \A plan \in Plans :
        /\ StartsAndEnds(plan)
        /\ \A i, k \in 1..Len(plan) :
               /\ (IsRegularStep(plan[i]) /\ IsSpreadStep(plan[k])) => i < k
               /\ (IsSpreadStep(plan[i]) /\ IsDispatchStep(plan[k])) => i < k

\* C22 (amended): every regular-field step precedes every fragment-spread
\* unmarshal step and every dispatch step; every fragment-spread unmarshal
\* step precedes the dispatch of the type's own inline-fragment fields (the
\* switch on typeName_t); the dispatch of the inline-fragment fields of a
\* fragment spread (the switch on typeName_t_<F>) follows the unmarshal
\* step of that fragment; the plan starts with the declaration of raw and
\* ends with return nil.
C22_OrderedByLevel ==
    \A plan \in Plans :
        /\ StartsAndEnds(plan)
        /\ \A i, k \in 1..Len(plan) :
               /\ (IsRegularStep(plan[i]) /\ (IsSpreadStep(plan[k]) \/ IsDispatchStep(plan[k])))
                      => i < k
               /\ (IsSpreadStep(plan[i]) /\ IsDispatchStep(plan[k])
                      /\ plan[k].Expr = str_typeName \o str_t) => i < k
        /\ \A k \in 1..Len(plan) :
               (IsDispatchStep(plan[k]) /\ plan[k].Expr # str_typeName \o str_t) =>
                   \E i \in 1..(k - 1) :
                       /\ IsSpreadStep(plan[i])
                       /\ plan[k].Expr = str_typeName \o ReplaceDots(plan[i].ErrorExpr.dst)

\* C22 witness: a plan with a regular step, two fragment-spread steps and
\* two dispatch steps, one of them between the fragment-spread steps
C22_Witness ==
    \E plan \in Plans :
        \E r, i, d, k, e \in 1..Len(plan) :
            /\ r < i /\ i < d /\ d < k /\ k < e
            /\ IsRegularStep(plan[r])
            /\ IsSpreadStep(plan[i]) /\ IsDispatchStep(plan[d])
            /\ IsSpreadStep(plan[k]) /\ IsDispatchStep(plan[e])

\* the paths from struct st to its fragment-spread fields, at any depth
RECURSIVE SpreadPaths(_, _)
SpreadPaths(prog, st) ==
    LET IsSpreadVar(f) == f.embedded /\ parseJSONTag(f.tag) \in {<<>>, str_dash}
    IN  UNION {{<<i>>} \cup {<<i>> \o p : p \in SpreadPaths(prog, StructOf(prog, st.fields[i].type))} :
                  i \in {k \in 1..Len(st.fields) : IsSpreadVar(st.fields[k])}}

\* the inline-fragment fields of the fragment type at path p of type t
InlineFieldsAt(prog, t, p) ==
    LET Of(st) == {j \in 1..Len(st.fields) : IsInlineFragment(st.fields[j])}
    IN  Of(StructOf(prog, TypeAt(prog, t, p)))

\* steps i < k of the plan: the unmarshal step of the fragment at path p and
\* later a switch, on a __typename read from raw, with a case that assigns
\* and decodes the field at path p \o <<j>>
NestedSwitchFor(prog, t, plan, p, j) ==
    \E i, k \in 1..Len(plan) :
        /\ i < k /\ k > 1
        /\ IsSpreadStep(plan[i])
        /\ ResolveExpr(prog, t, plan[i].ErrorExpr.dst) = <<p>>
        /\ IsDispatchStep(plan[k])
        /\ plan[k - 1].op = "IfStatement"
        /\ plan[k - 1].Condition.rawExpr = str_raw
        /\ plan[k - 1].Condition.key = str_typenameKey
        /\ \E c \in 1..Len(plan[k].Cases) :
               LET body == plan[k].Cases[c].Body
               IN  /\ \E a \in 1..Len(body) :
                          /\ body[a].op = "Assignment"
                          /\ ResolveExpr(prog, t, body[a].Target) = <<p \o <<j>>>>
                   /\ \E a \in 1..Len(body) :
                          /\ body[a].op = "ErrorCheckStatement"
                          /\ ResolveExpr(prog, t, body[a].ErrorExpr.dst) = <<p \o <<j>>>>

\* C23: for every fragment-spread field, at any spread nesting depth, whose
\* fragment type holds an inline-fragment field, the plan holds after that
\* fragment's unmarshal step a __typename switch, read from the raw map of
\* the enclosing type, whose assignment and decode targets denote the
\* inline-fragment field under that fragment field's path.
C23_NestedSwitchTargetsItsFragment ==
    pc = "generated" =>
        \A n \in 1..Len(typeInfos) :
            typeInfos[n].statements # <<>> =>
                \A p \in SpreadPaths(typeInfos, typeInfos[n].typeInfo.Struct[1]) :
                    \A j \in InlineFieldsAt(typeInfos, typeInfos[n].typeInfo.Named[1], p) :
                        NestedSwitchFor(typeInfos, typeInfos[n].typeInfo.Named[1],
                                        typeInfos[n].statements, p, j)

\* the unmarshal steps of a plan whose target is the selector expr
SpreadStepsTo(plan, expr) ==
    {i \in 1..Len(plan) : IsSpreadStep(plan[i]) /\ plan[i].ErrorExpr.dst = expr}

\* the name of the fragment type at spread path p of type t
FragmentAt(prog, t, p) == unwrapToNamedStruct(TypeAt(prog, t, p))[1].name

\* the fields of struct st that are decoded key by key
KeyedFields(st) ==
    {i \in 1..Len(st.fields) :
        /\ ~st.fields[i].embedded
        /\ Exported(st.fields[i])
        /\ parseJSONTag(st.fields[i].tag) \notin {<<>>, str_dash}}

\* the number of per-key steps of a plan is the number of the type's own
\* keyed fields: the fields of its fragments have none
NoPerKeyStepsForFragments(plan, st) ==
    Cardinality({i \in 1..Len(plan) : IsRegularStep(plan[i])}) = Cardinality(KeyedFields(st))

\* C24 (as claimed): for fragment spreads nested to any depth, the plan
\* holds exactly one unmarshal step of the input bytes per fragment named
\* type reachable through the nesting and no per-key step for the
\* fragments' own fields.
C24_OneUnmarshalPerNamedType ==
    pc = "generated" =>
        \A n \in 1..Len(typeInfos) :
            typeInfos[n].statements # <<>> =>
                LET t == typeInfos[n].typeInfo.Named[1]
                    st == typeInfos[n].typeInfo.Struct[1]
                    plan == typeInfos[n].statements
                IN  /\ \A p \in SpreadPaths(typeInfos, st) :
                           Cardinality(SpreadStepsTo(plan, Dot(str_t, FragmentAt(typeInfos, t, p)))) = 1
                    /\ NoPerKeyStepsForFragments(plan, st)

\* C24 (amended): for fragment spreads nested to any depth, the plan holds
\* exactly one unmarshal step of the input bytes per fragment-spread field
\* reachable through the nesting, with the target t.<fragment type>, so a
\* fragment type reached along k paths has k such steps; it holds no per-key
\* step for the fragments' own fields; and a fragment spread whose type has
\* neither fragment spreads nor inline fragments contributes that single
\* step only.
C24_OneUnmarshalPerSpreadField ==
    pc = "generated" =>
        \A n \in 1..Len(typeInfos) :
            typeInfos[n].statements # <<>> =>
                LET t == typeInfos[n].typeInfo.Named[1]
                    st == typeInfos[n].typeInfo.Struct[1]
                    plan == typeInfos[n].statements
                    paths == SpreadPaths(typeInfos, st)
                    switches == {p \in paths : InlineFieldsAt(typeInfos, t, p) # {}}
                    own == IF InlineFieldsAt(typeInfos, t, <<>>) # {} THEN 1 ELSE 0
                IN  /\ \A p \in paths :
                           Cardinality(SpreadStepsTo(plan, Dot(str_t, FragmentAt(typeInfos, t, p))))
                               = Cardinality({q \in paths : FragmentAt(typeInfos, t, q)
                                                               = FragmentAt(typeInfos, t, p)})
                    /\ Cardinality({i \in 1..Len(plan) : IsSpreadStep(plan[i])}) = Cardinality(paths)
                    /\ NoPerKeyStepsForFragments(plan, st)
                    /\ Len(plan) = 3 + Cardinality(KeyedFields(st)) + Cardinality(paths)
                                     + 3 * (Cardinality(switches) + own)

\* C24 witness: the plan of a type that spreads a fragment without
\* sub-fields, a fragment that spreads a further fragment, and that further
\* fragment itself
C24_Witness ==
    /\ pc = "generated"
    /\ \E n \in 1..Len(typeInfos) :
           LET t == typeInfos[n].typeInfo.Named[1]
               paths == SpreadPaths(typeInfos, typeInfos[n].typeInfo.Struct[1])
           IN  /\ typeInfos[n].statements # <<>>
               /\ \E p, q, e \in paths :
                      /\ Len(p) = 2 /\ Len(q) = 1
                      /\ FragmentAt(typeInfos, t, p) = FragmentAt(typeInfos, t, q)
                      /\ FragmentAt(typeInfos, t, e) = str_E
               /\ SpreadStepsTo(typeInfos[n].statements, Dot(str_t, str_E)) # {}

\* the regular bucket of the classification of a type's fields
RegularBucket(typeInfo) == categorizeFieldsListWithPath(typeInfo.Fields, str_t).regularFields

InBucket(f, bucket) == \E k \in 1..Len(bucket) : bucket[k] = f

HasWireName(f) == f.JSONTag # <<>> /\ f.JSONTag # str_dash

\* C25 (as claimed): the classification puts a field in the regular bucket
\* if and only if its wire tag is not the omit sentinel and its identifier
\* is exported.
C25_RegularIffKeyedAndExported ==
    \A n \in 1..Len(typeInfos) :
        \A i \in 1..Len(typeInfos[n].typeInfo.Fields) :
            LET f == typeInfos[n].typeInfo.Fields[i]
            IN  InBucket(f, RegularBucket(typeInfos[n].typeInfo))
                    <=> (f.JSONTag # str_dash /\ f.IsExported)

\* C25 (amended): the classification puts a field in the regular bucket if
\* and only if it is neither an inline-fragment field nor an embedded field
\* without a wire name; every exported field with a wire name is in the
\* bucket; and the plan holds a per-key decode step for a field if and only
\* if the field is in the bucket, its wire tag is neither empty nor the
\* omit sentinel and its identifier is exported.
C25_RegularStepIffKeyedAndExported ==
    \A n \in 1..Len(typeInfos) :
        \A i \in 1..Len(typeInfos[n].typeInfo.Fields) :
            LET f == typeInfos[n].typeInfo.Fields[i]
                bucket == RegularBucket(typeInfos[n].typeInfo)
                plan == typeInfos[n].statements
            IN  /\ InBucket(f, bucket)
                       <=> (~f.IsInlineFragment /\ ~(f.IsEmbedded /\ ~HasWireName(f)))
                /\ (HasWireName(f) /\ f.IsExported) => InBucket(f, bucket)
                /\ plan # <<>> =>
                       ((\E k \in 1..Len(plan) : plan[k] = DecodeField(str_t, str_raw, f))
                            <=> (InBucket(f, bucket) /\ HasWireName(f) /\ f.IsExported))
                /\ plan # <<>> =>
                       Cardinality({k \in 1..Len(plan) : IsRegularStep(plan[k])})
                           = Cardinality({k \in 1..Len(bucket) :
                                             HasWireName(bucket[k]) /\ bucket[k].IsExported})

\* C25 witness: a type with a plan whose regular bucket holds a field that
\* is not exported, a field with the omit sentinel and a field that is
\* decoded by its key
C25_Witness ==
    \E n \in 1..Len(typeInfos) :
        LET bucket == RegularBucket(typeInfos[n].typeInfo)
        IN  /\ typeInfos[n].statements # <<>>
            /\ \E i, j \in 1..Len(bucket) :
                   /\ (~bucket[i].IsExported \/ bucket[i].JSONTag = str_dash)
                   /\ HasWireName(bucket[j]) /\ bucket[j].IsExported
                   /\ \E k \in 1..Len(typeInfos[n].statements) :
                          typeInfos[n].statements[k] = DecodeField(str_t, str_raw, bucket[j])

\* the index in fs of the last record called name
LastIndexOf(fs, name) ==
    CHOOSE i \in 1..Len(fs) : fs[i].Name = name /\ \A k \in (i + 1)..Len(fs) : fs[k].Name # name

\* C26: when several sibling records of one scope share a name, the record
\* kept by the duplicate collapse, and the struct field built from it, is
\* the one that occurs last in selection order.
C26_LastRecordIsKept ==
    \A sc \in scopes :
        LET u == uniqueByName(sc.fields)
            st == goStructType(sc.fields)
        IN  \A i \in 1..Len(sc.fields) :
                LET last == sc.fields[LastIndexOf(sc.fields, sc.fields[i].Name)]
                IN  \A j \in 1..Len(u) :
                        u[j].Name = sc.fields[i].Name =>
                            (u[j] = last /\ st.fields[j] = goVar(last))

\* C26 witness: the struct of a scope with two different sibling records of
\* one name has been built from the second
C26_Witness ==
    \E sc \in scopes :
        /\ Len(sc.fields) = 2
        /\ sc.fields[1].Name = sc.fields[2].Name
        /\ goVar(sc.fields[1]) # goVar(sc.fields[2])
        /\ goStructType(sc.fields).fields = <<goVar(sc.fields[2])>>

\* C27: every struct built by goStructType has pairwise distinct Go field
\* identifiers, the record names converted by ToGo, whatever mix of aliases,
\* fragment spreads and inline fragments the selection set holds.
C27_GoFieldNamesDistinct ==
    \A sc \in scopes :
        LET st == goStructType(sc.fields)
        IN  \A i, k \in 1..Len(st.fields) :
                i # k => st.fields[i].name # st.fields[k].name

\* C28: within one plan every local variable is declared at most once at
\* function scope; the type-name locals of the inline-fragment dispatch at
\* different target paths have distinct names.
C28_LocalsDeclaredOnce ==
    \A plan \in Plans :
        \A i, k \in 1..Len(plan) :
            (i # k /\ plan[i].op = "VariableDecl" /\ plan[k].op = "VariableDecl")
                => plan[i].Name # plan[k].Name

(***************************************************************************)
(* Scenario 11: the calls of CreateGoTypes, newFields and newField step by *)
(* step.  run is the call stack: one frame per running newFields, with the *)
(* selection set it ranges over and the index of the next selection.  The  *)
(* records and types the calls build are those of CreateGoTypesOp and are  *)
(* left out here: which call follows which depends on the selection sets   *)
(* only.                                                                   *)
(***************************************************************************)
MaxWalkOps == 2

\* the selection sets a fragment definition is drawn from
WalkBodies == {
    <<Leaf(str_a, str_String, TRUE)>>,
    <<Leaf(str_a, str_String, TRUE), SpreadSel(str_F)>>,
    <<SpreadSel(str_G), Leaf(str_b, str_String, FALSE)>>,
    <<InlineSel(str_V, <<Leaf(str_a, str_String, TRUE), SpreadSel(str_H)>>)>>,
    <<FieldSel(str_u, NamedRef(str_U, FALSE), <<SpreadSel(str_H)>>)>> }

\* the fragments a selection set spreads, at any depth of its fields and
\* inline fragments
RECURSIVE SpreadsIn(_)
SpreadsIn(sels) ==
    UNION {IF sels[i].kind = "FragmentSpread" THEN {sels[i].Name}
           ELSE SpreadsIn(sels[i].SelectionSet) : i \in 1..Len(sels)}

\* the fragments reachable from fragment n in at least one and at most k
\* steps
RECURSIVE ReachableIn(_, _, _)
ReachableIn(frags, n, k) ==
    IF k = 0 THEN {}
    ELSE SpreadsIn(frags[n])
         \cup UNION {ReachableIn(frags, m, k - 1) : m \in SpreadsIn(frags[n])}

\* no fragment reaches itself
Acyclic(frags) ==
    \A n \in DOMAIN frags : n \notin ReachableIn(frags, n, Cardinality(DOMAIN frags))

WalkRegistries == {r \in [{str_F, str_G, str_H} -> WalkBodies] : Acyclic(r)}

\* the selection sets an operation is drawn from
WalkSelectionSets == {
    <<SpreadSel(str_F)>>,
    <<FieldSel(str_u, NamedRef(str_U, FALSE), <<SpreadSel(str_G)>>), SpreadSel(str_H)>> }

WalkDocuments ==
    {[ops |-> [i \in 1..Len(q) |-> Operation(IF i = 1 THEN str_Op ELSE str_Aa, q[i])],
      frags |-> r, cfg |-> DefaultCfg] :
        q \in UNION {SeqsOfLen(WalkSelectionSets, n) : n \in 1..MaxWalkOps},
        r \in WalkRegistries}

Frame(sels) == [sels |-> sels, i |-> 1]

InitWalk ==
    /\ pc = "create"
    /\ input \in WalkDocuments
    /\ g = NewGoTypeGenerator
    /\ opIdx = 1
    /\ scopes = {}
    /\ goTypes = <<>>
    /\ wrapped = <<>>
    /\ skipUnmarshal = {}
    /\ typeInfos = <<>>
    /\ run = <<>>

\* newFields that starts its loop over instead of returning
newFieldsRestarts ==
    /\ pc = "create"
    /\ run # <<>>
    /\ run[Len(run)].i > Len(run[Len(run)].sels)
    /\ run' = [run EXCEPT ![Len(run)].i = 1]
    /\ UNCHANGED <<pc, input, g, opIdx, scopes, goTypes, wrapped, skipUnmarshal, typeInfos>>

\* CreateGoTypes calls newFields for the next operation
CreateGoTypesCall ==
    /\ pc = "create"
    /\ run = <<>>
    /\ opIdx <= Len(input.ops)
    /\ run' = <<Frame(input.ops[opIdx].SelectionSet)>>
    /\ UNCHANGED <<pc, input, g, opIdx, scopes, goTypes, wrapped, skipUnmarshal, typeInfos>>

\* the selection set newField hands to newFields
ChildSelectionSet(doc, sel) ==
    IF sel.kind = "FragmentSpread" THEN doc.frags[sel.Name] ELSE sel.SelectionSet

\* newFields calls newField for the next selection, which calls newFields
\* for the selection set of the field, the fragment definition or the
\* inline fragment
newFieldCall ==
    /\ pc = "create"
    /\ run # <<>>
    /\ LET top == run[Len(run)]
       IN  /\ top.i <= Len(top.sels)
           /\ run' = Append([run EXCEPT ![Len(run)].i = top.i + 1],
                            Frame(ChildSelectionSet(input, top.sels[top.i])))
    /\ UNCHANGED <<pc, input, g, opIdx, scopes, goTypes, wrapped, skipUnmarshal, typeInfos>>

\* newFields leaves its loop and returns; for the frame of an operation
\* CreateGoTypes stores the named type and goes on to the next operation
newFieldsReturn ==
    /\ pc = "create"
    /\ run # <<>>
    /\ run[Len(run)].i > Len(run[Len(run)].sels)
    /\ run' = SubSeq(run, 1, Len(run) - 1)
    /\ opIdx' = IF Len(run) = 1 THEN opIdx + 1 ELSE opIdx
    /\ UNCHANGED <<pc, input, g, scopes, goTypes, wrapped, skipUnmarshal, typeInfos>>

\* CreateGoTypes leaves its loop and returns
CreateGoTypesReturns ==
    /\ pc = "create"
    /\ run = <<>>
    /\ opIdx > Len(input.ops)
    /\ pc' = "created"
    /\ UNCHANGED <<input, g, opIdx, scopes, goTypes, wrapped, skipUnmarshal, typeInfos, run>>

NextWalk == CreateGoTypesCall \/ newFieldCall \/ newFieldsReturn \/ CreateGoTypesReturns

SpecWalk == InitWalk /\ [][NextWalk]_vars

\* the calls run to completion: a call that can take a step is not held
\* back for ever
FairWalk == SpecWalk /\ WF_vars(NextWalk)

\* C29: CreateGoTypes terminates for every operation list whose
\* fragment-spread references are acyclic.
C29_CreateGoTypesTerminates == Acyclic(input.frags) ~> (pc = "created" /\ run = <<>>)

\* C29 witness: CreateGoTypes has returned for a document whose operation
\* spreads a fragment that spreads a fragment that spreads a third
C29_Witness ==
    /\ pc = "created"
    /\ run = <<>>
    /\ opIdx = Len(input.ops) + 1
    /\ \E n \in DOMAIN input.frags :
           \E m \in SpreadsIn(input.frags[n]) :
               /\ SpreadsIn(input.frags[m]) # {}
               /\ n \in SpreadsIn(input.ops[1].SelectionSet)

(***************************************************************************)
(* Scenario 12: the token-driven Decoder of graphqljson/graphql.go.  The   *)
(* input is a sequence of JSON tokens (commas and colons are not tokens);  *)
(* "a" is a string, as a key or as a value, and "n" is null.  The decoder  *)
(* state d holds the frame stack and the state of the jsontext tokenizer:  *)
(* the position, the stack of open containers ("{k": object before a key,  *)
(* "{v": object before a value, "[": array) and the number of complete     *)
(* top-level values read.  A frame has one target, given by its type.      *)
(***************************************************************************)
MaxTokens == 4

JSONTokens == {"{", "}", "[", "]", "a", "n"}

TString    == [k |-> "string", a |-> <<>>]
TMap       == [k |-> "map",    a |-> <<>>]
TSlice(e)  == [k |-> "slice",  a |-> <<e>>]
\* struct { A e `json:"a"` }
TStruct(e) == [k |-> "struct", a |-> <<e>>]

FrameTargets == {TString, TStruct(TString), TSlice(TString), TSlice(TSlice(TString)), TSlice(TMap)}

\* jsontext.Decoder: whether tok may follow what has been read
ValidToken(stack, tok) ==
    LET top == IF stack = <<>> THEN "top" ELSE stack[Len(stack)]
    IN  IF tok = "}" THEN top = "{k"
        ELSE IF tok = "]" THEN top = "["
        ELSE IF top = "{k" THEN tok = "a"
        ELSE TRUE

\* jsontext.Decoder: the open containers after the valid token tok
AfterToken(stack, tok) ==
    LET Complete(st) ==
            IF st # <<>> /\ st[Len(st)] = "{v" THEN [st EXCEPT ![Len(st)] = "{k"] ELSE st
    IN  IF tok \in {"}", "]"} THEN Complete(SubSeq(stack, 1, Len(stack) - 1))
        ELSE IF stack # <<>> /\ stack[Len(stack)] = "{k" THEN [stack EXCEPT ![Len(stack)] = "{v"]
        ELSE IF tok = "{" THEN Append(stack, "{k")
        ELSE IF tok = "[" THEN Append(stack, "[")
        ELSE Complete(stack)

\* jsontext.Decoder.PeekKind: "0" for an invalid token or the end of input
PeekKind(toks, d) ==
    IF d.pos > Len(toks) \/ ~ValidToken(d.stack, toks[d.pos]) THEN "0" ELSE toks[d.pos]

\* jsontext.Decoder.ReadToken: the decoder after the token, or with err set
DecoderReadToken(toks, d, msg) ==
    IF d.pos > Len(toks) THEN [d EXCEPT !.err = "unexpected end of JSON input"]
    ELSE IF ~ValidToken(d.stack, toks[d.pos]) THEN [d EXCEPT !.err = msg]
    ELSE LET After(st) == [d EXCEPT !.pos = d.pos + 1, !.stack = st,
                                    !.vals = IF st = <<>> THEN d.vals + 1 ELSE d.vals]
         IN  After(AfterToken(d.stack, toks[d.pos]))

\* jsontext.Decoder.ReadValue: reads tokens up to the end of the value that
\* starts at d.pos
RECURSIVE DecoderReadValue(_, _, _)
DecoderReadValue(toks, d, base) ==
    LET Rest(r) == IF r.err # "" \/ Len(r.stack) <= base THEN r
                   ELSE DecoderReadValue(toks, r, base)
    IN  Rest(DecoderReadToken(toks, d, "read composite value"))

newDecoder == [frames |-> <<>>, pos |-> 1, stack |-> <<>>, vals |-> 0, err |-> "",
               poppedEmpty |-> FALSE]

currentFrame(d) == d.frames[Len(d.frames)]

pushFrame(d, kind, target) ==
    [d EXCEPT !.frames = Append(d.frames, [kind |-> kind, target |-> target])]

\* popFrame; poppedEmpty records a call with no frame on the stack
popFrame(d) ==
    IF Len(d.frames) = 0 THEN [d EXCEPT !.poppedEmpty = TRUE]
    ELSE [d EXCEPT !.frames = SubSeq(d.frames, 1, Len(d.frames) - 1)]

\* replaceCurrentKind that pops the frame instead
replaceCurrentKindPops(d, kind) == popFrame(d)

replaceCurrentKind(d, kind) == [d EXCEPT !.frames[Len(d.frames)].kind = kind]

\* Decoder.handleValue
handleValue(d, tok) ==
    IF tok = "n" THEN popFrame(d)
    ELSE IF tok = "a"
    THEN IF currentFrame(d).target.k = "string" THEN popFrame(d)
         ELSE [d EXCEPT !.err = "unmarshal value"]
    ELSE IF tok \in {"{", "["} THEN replaceCurrentKind(d, tok)
    ELSE popFrame(d)

\* Decoder.prepareObjectField
prepareObjectField(d, key) ==
    IF currentFrame(d).target.k = "struct" /\ key = "a"
    THEN pushFrame(d, "0", currentFrame(d).target.a[1])
    ELSE [d EXCEPT !.err = "struct field doesn't exist"]

\* Decoder.prepareArrayElement
prepareArrayElement(d) ==
    IF currentFrame(d).target.k = "slice"
    THEN pushFrame(d, "0", currentFrame(d).target.a[1])
    ELSE [d EXCEPT !.err = "slice doesn't exist"]

\* Decoder.handleCompositeSpecialType: handled, and the decoder after
handleCompositeSpecialType(toks, d, peek) ==
    IF peek \notin {"{", "["} \/ currentFrame(d).target.k # "map"
    THEN [handled |-> FALSE, d |-> d]
    ELSE LET Read(r) ==
                 IF r.err # "" THEN [handled |-> FALSE, d |-> r]
                 ELSE IF peek = "[" THEN [handled |-> FALSE, d |-> [r EXCEPT !.err = "unmarshal into map"]]
                 ELSE [handled |-> TRUE, d |-> popFrame(r)]
         IN  Read(DecoderReadValue(toks, d, Len(d.stack)))

\* the tail of handleObject and handleArray: the special types, then the
\* token of the value
handleElement(toks, d, msg) ==
    LET Value(r) == IF r.err # "" THEN r ELSE handleValue(r, toks[r.pos - 1])
        Special(h) ==
            IF h.d.err # "" \/ h.handled THEN h.d
            ELSE Value(DecoderReadToken(toks, h.d, msg))
    IN  IF d.err # "" THEN d
        ELSE Special(handleCompositeSpecialType(toks, d, PeekKind(toks, d)))

\* Decoder.handleObject
handleObject(toks, d) ==
    LET Key(r) ==
            IF r.err # "" THEN r
            ELSE IF toks[r.pos - 1] = "}" THEN popFrame(r)
            ELSE handleElement(toks, prepareObjectField(r, toks[r.pos - 1]),
                               "read field value token")
    IN  Key(DecoderReadToken(toks, d, "read object token"))

\* Decoder.handleArray
handleArray(toks, d) ==
    IF PeekKind(toks, d) = "0" THEN [d EXCEPT !.err = "peek array value"]
    ELSE IF PeekKind(toks, d) = "]"
    THEN LET End(r) == IF r.err # "" THEN r ELSE popFrame(r)
         IN  End(DecoderReadToken(toks, d, "read array end"))
    ELSE handleElement(toks, prepareArrayElement(d), "read array token")

InitFrames ==
    /\ pc = "call"
    /\ input \in [tokens : UNION {SeqsOfLen(JSONTokens, n) : n \in 1..MaxTokens},
                  target : FrameTargets]
    /\ g = NewGoTypeGenerator
    /\ opIdx = 1
    /\ scopes = {}
    /\ goTypes = <<>>
    /\ wrapped = <<>>
    /\ skipUnmarshal = {}
    /\ typeInfos = <<>>
    /\ run = newDecoder

\* Decoder.Decode: the first frame, then decode
DecoderDecode ==
    /\ pc = "call"
    /\ run' = pushFrame(run, "0", input.target)
    /\ pc' = "decode"
    /\ UNCHANGED <<input, g, opIdx, scopes, goTypes, wrapped, skipUnmarshal, typeInfos>>

\* one turn of the loop of Decoder.decode ends in d
decodeTurn(d) ==
    /\ run' = d
    /\ pc' = IF d.err # "" THEN "returned" ELSE "decode"
    /\ UNCHANGED <<input, g, opIdx, scopes, goTypes, wrapped, skipUnmarshal, typeInfos>>

\* Decoder.decode in the state BeginObject
decodeObject ==
    /\ pc = "decode"
    /\ Len(run.frames) > 0
    /\ currentFrame(run).kind = "{"
    /\ decodeTurn(handleObject(input.tokens, run))

\* Decoder.decode in the state BeginArray
decodeArray ==
    /\ pc = "decode"
    /\ Len(run.frames) > 0
    /\ currentFrame(run).kind = "["
    /\ decodeTurn(handleArray(input.tokens, run))

\* Decoder.decode in the state 0: a token is read and handled as a value
decodeValue ==
    /\ pc = "decode"
    /\ Len(run.frames) > 0
    /\ currentFrame(run).kind = "0"
    /\ LET Value(r) == IF r.err # "" THEN r ELSE handleValue(r, input.tokens[r.pos - 1])
       IN  decodeTurn(Value(DecoderReadToken(input.tokens, run, "read json token")))

\* Decoder.decode leaves its loop and Decode returns nil
decodeReturn ==
    /\ pc = "decode"
    /\ Len(run.frames) = 0
    /\ pc' = "returned"
    /\ UNCHANGED <<input, g, opIdx, scopes, goTypes, wrapped, skipUnmarshal, typeInfos, run>>

NextFrames == DecoderDecode \/ decodeObject \/ decodeArray \/ decodeValue \/ decodeReturn

SpecFrames == InitFrames /\ [][NextFrames]_vars

\* C30: the frame stack is never popped when it is empty, and Decode
\* returns success only when the frame stack is empty and exactly one
\* complete top-level JSON value has been read.
C30_FramesFollowTheValue ==
    /\ ~run.poppedEmpty
    /\ (pc = "returned" /\ run.err = "") =>
           (run.frames = <<>> /\ run.vals = 1 /\ run.stack = <<>>)

\* C30 witness: Decode has returned success for an input of four tokens
\* with a value inside a container, after frames were pushed and popped
C30_Witness ==
    /\ pc = "returned"
    /\ run.err = ""
    /\ run.frames = <<>>
    /\ run.pos = 5
    /\ input.tokens[1] \in {"{", "["}
    /\ input.tokens[2] \in {"a", "[", "{"}

====
